---- MODULE Spec2Model ----
(***************************************************************************)
(* Model of the templated spreadsheet report engine of kanoes/monitor:     *)
(* core_analytics/view/factories/daily_monitor_factory.py                  *)
(*                                                                         *)
(* A workbook is a sequence of sheets; a sheet has a title and a sparse    *)
(* map from <<row, column>> to cells, as openpyxl keeps it (ws._cells).    *)
(* A cell has a value, a style (six attributes) and a hyperlink flag.      *)
(* Every value is a record [k, a, b] so that values of different Python    *)
(* types can be compared.                                                  *)
(***************************************************************************)
EXTENDS Integers, Sequences, FiniteSets, TLC

(***************************************************************************)
(* Bounds of the model.                                                    *)
(***************************************************************************)
MaxRuns == 2
MaxPipelineRuns == 1
MaxJobs == 2
MaxCleanups == 1
MaxFirings == 7

(***************************************************************************)
(* Program constants.                                                      *)
(***************************************************************************)
FirstDayRow == 4
LastDayRow == 40
JstOffsetHours == 9
HistoryFirstDataRow == 2
max_len == 32767
DefaultMaxRow == 1

(***************************************************************************)
(* Cell values.                                                            *)
(***************************************************************************)
None == [k |-> "none", a |-> 0, b |-> 0]
IntVal(n) == [k |-> "int", a |-> n, b |-> 0]
\* the string f"{month}月{day}日"
LabelVal(month, day) == [k |-> "label", a |-> month, b |-> day]
\* the same string with surrounding white space
PaddedLabelVal(month, day) == [k |-> "padlabel", a |-> month, b |-> day]
\* any other string, named by a number
TextVal(n) == [k |-> "text", a |-> n, b |-> 0]
\* the string "ERROR"
ErrorVal == [k |-> "error", a |-> 0, b |-> 0]
\* a naive datetime and a timezone-aware datetime
DateTimeVal(n) == [k |-> "datetime", a |-> n, b |-> 0]
TzDateTimeVal(n) == [k |-> "tzdatetime", a |-> n, b |-> 0]

\* a string of n legal and c illegal (control) characters
StrVal(n, c) == [k |-> "str", a |-> n, b |-> c]
\* bytes that decode to such a string
BytesVal(n, c) == [k |-> "bytes", a |-> n, b |-> c]
\* a value of another type, whose str() has n characters
OtherVal(n) == [k |-> "other", a |-> n, b |-> 0]
\* a float, a date and a time
FloatVal(n) == [k |-> "float", a |-> n, b |-> 0]
DateVal(n) == [k |-> "date", a |-> n, b |-> 0]
TimeVal(n) == [k |-> "time", a |-> n, b |-> 0]

\* Python truthiness of a cell value (None, 0 and "" are falsy)
Truthy(v) == ~(v.k = "none" \/ (v.k = "int" /\ v.a = 0))

(***************************************************************************)
(* Styles and cells.                                                       *)
(***************************************************************************)
DefaultStyle ==
    [number_format |-> 0, border |-> 0, fill |-> 0,
     font |-> 0, alignment |-> 0, protection |-> 0]

\* a style of the template's scaffolding, named by a number
ScaffoldStyle(n) ==
    [number_format |-> n, border |-> 1, fill |-> n,
     font |-> 1, alignment |-> 1, protection |-> 1]

\* openpyxl's date number format, which a datetime value assignment sets
DateNumberFormat == 14

EmptyCell == [value |-> None, style |-> DefaultStyle, hyperlink |-> FALSE]

\* a sheet without cells
EmptyCells == [p \in {} |-> EmptyCell]

\* cell.value = value: openpyxl binds the value, and for a datetime value
\* switches the number format to a date format
AssignValue(cell, value) ==
    [cell EXCEPT !.value = value,
                 !.style = IF value.k = "datetime"
                           THEN [@ EXCEPT !.number_format = DateNumberFormat]
                           ELSE @]

\* a faulty write: the value is assigned and no attribute is reapplied
set_cell_value_direct(cell, value) == AssignValue(cell, value)

\* set_cell_value_keep_format: capture the six attributes, assign, reapply
set_cell_value_keep_format(cell, value) ==
    LET saved == cell.style
        assigned == AssignValue(cell, value)
    IN [assigned EXCEPT !.style = saved]

\* the provisioning clear of one cell: value None, hyperlink dropped, style kept
ClearCellKeepFormat(cell) ==
    LET saved == cell.style
        assigned == AssignValue(cell, None)
    IN [assigned EXCEPT !.hyperlink = FALSE, !.style = saved]

(***************************************************************************)
(* Sheets.                                                                 *)
(***************************************************************************)
\* ws.cell(row, column) / ws["A1"]: the cell, created empty when absent
CellAt(ws, r, c) ==
    IF <<r, c>> \in DOMAIN ws.cells THEN ws.cells[<<r, c>>] ELSE EmptyCell

ValueAt(ws, r, c) == CellAt(ws, r, c).value

\* ws.max_row: the largest row that has a cell, 1 for a sheet without cells
max_row(ws) ==
    IF DOMAIN ws.cells = {} THEN DefaultMaxRow
    ELSE CHOOSE r \in {p[1] : p \in DOMAIN ws.cells} :
             \A p \in DOMAIN ws.cells : p[1] <= r

max_column(ws) ==
    IF DOMAIN ws.cells = {} THEN DefaultMaxRow
    ELSE CHOOSE c \in {p[2] : p \in DOMAIN ws.cells} :
             \A p \in DOMAIN ws.cells : p[2] <= c

\* the sheet with the cells of region rewritten by f (cells are created)
MapRegion(ws, region, f(_, _)) ==
    [ws EXCEPT !.cells =
        [p \in (DOMAIN ws.cells) \cup region |->
            IF p \in region THEN f(p, CellAt(ws, p[1], p[2]))
            ELSE ws.cells[p]]]

(***************************************************************************)
(* Sheet titles, as records: the Period sheet f"{year}年{month}月", the     *)
(* Template sheet "YYYY年MM月", and the titles openpyxl makes up.            *)
(***************************************************************************)
PeriodName(year, month) == [k |-> "period", y |-> year, m |-> month]
template_sheet_name == [k |-> "template", y |-> 0, m |-> 0]
OtherName(n) == [k |-> "other", y |-> n, m |-> 0]
\* the nine category sheets of the history workbook, by number
CategoryName(n) == [k |-> "category", y |-> n, m |-> 0]
\* "<title> Copy", the title copy_worksheet gives
CopyName(t) == [k |-> "copyof", y |-> t.y, m |-> t.m]
\* "Sheet", the title create_sheet gives
NewSheetName == [k |-> "sheet", y |-> 0, m |-> 0]
\* "<title>1", what the title setter makes of a title already in use
DuplicateName(t) == [k |-> "dup", y |-> t.y, m |-> t.m]

sheetnames(wb) == {wb[i].title : i \in 1..Len(wb)}

\* workbook[name]: the first sheet of that title
SheetIndex(wb, name) ==
    CHOOSE i \in 1..Len(wb) :
        wb[i].title = name /\ \A j \in 1..(i - 1) : wb[j].title # name

SheetNamed(wb, name) == wb[SheetIndex(wb, name)]

\* new_ws.title = value: a title in use gets a suffix
SetTitle(wb, i, name) ==
    [wb EXCEPT ![i].title =
        IF \E j \in 1..Len(wb) : j # i /\ wb[j].title = name
        THEN DuplicateName(name) ELSE name]

\* a faulty copy_worksheet: the source sheet itself is taken, not a copy
copy_worksheet_takes_source(wb, source) ==
    Append(SubSeq(wb, 1, source - 1) \o SubSeq(wb, source + 1, Len(wb)),
           [title |-> CopyName(wb[source].title), cells |-> wb[source].cells])

\* workbook.copy_worksheet(source): a copy of the cells, appended
copy_worksheet(wb, source) ==
    Append(wb, [title |-> CopyName(wb[source].title),
                cells |-> wb[source].cells])

\* workbook.create_sheet(): an empty sheet, appended
create_sheet(wb) ==
    Append(wb, [title |-> NewSheetName, cells |-> EmptyCells])

(***************************************************************************)
(* Columns: openpyxl.utils.column_index_from_string on a column name given  *)
(* as its letters.                                                         *)
(***************************************************************************)
LetterOrd ==
    [A |-> 1, B |-> 2, C |-> 3, D |-> 4, E |-> 5, F |-> 6, G |-> 7, H |-> 8,
     I |-> 9, J |-> 10, K |-> 11, L |-> 12, M |-> 13, N |-> 14, O |-> 15,
     P |-> 16, Q |-> 17, R |-> 18, S |-> 19, T |-> 20, U |-> 21, V |-> 22,
     W |-> 23, X |-> 24, Y |-> 25, Z |-> 26]

column_index_from_string(s) ==
    IF Len(s) = 1 THEN LetterOrd[s[1]]
    ELSE Cardinality(DOMAIN LetterOrd) * LetterOrd[s[1]] + LetterOrd[s[2]]

(***************************************************************************)
(* Dates.                                                                  *)
(***************************************************************************)
IsLeap(year) == (year % 4 = 0 /\ year % 100 # 0) \/ year % 400 = 0

\* calendar.monthrange(year, month)[1]
monthrange(year, month) ==
    IF month = 2 THEN (IF IsLeap(year) THEN 29 ELSE 28)
    ELSE IF month \in {4, 6, 9, 11} THEN 30 ELSE 31

\* target_date.astimezone(jst) of a UTC instant [year, month, day, hour]
astimezone_jst(t) ==
    LET h == t.hour + JstOffsetHours
        roll == h >= 24
        last == t.day = monthrange(t.year, t.month)
    IN IF ~roll THEN [t EXCEPT !.hour = h]
       ELSE IF ~last THEN [t EXCEPT !.hour = h - 24, !.day = @ + 1]
       ELSE IF t.month < 12
            THEN [t EXCEPT !.hour = h - 24, !.day = 1, !.month = @ + 1]
            ELSE [t EXCEPT !.hour = h - 24, !.day = 1, !.month = 1,
                           !.year = @ + 1]

\* current_date.replace(day=1) - timedelta(days=1)
prev_month_last_day(cur) ==
    LET y == IF cur.month = 1 THEN cur.year - 1 ELSE cur.year
        m == IF cur.month = 1 THEN 12 ELSE cur.month - 1
    IN [cur EXCEPT !.year = y, !.month = m, !.day = monthrange(y, m)]

(***************************************************************************)
(* TemplateProvisioner: DailyMonitorFactory._ensure_month_sheet_exists     *)
(***************************************************************************)
\* faulty ranges: the second one ends at I and leaves out the cost columns
ranges_without_costs ==
    << << <<"A">>, <<"E">> >>, << <<"G">>, <<"I">> >>, << <<"O">>, <<"S">> >>,
       << <<"U">>, <<"A", "A">> >>, << <<"A", "C">>, <<"A", "E">> >> >>

ranges ==
    << << <<"A">>, <<"E">> >>, << <<"G">>, <<"M">> >>, << <<"O">>, <<"S">> >>,
       << <<"U">>, <<"A", "A">> >>, << <<"A", "C">>, <<"A", "E">> >> >>

label_cols == << <<"A">>, <<"G">>, <<"O">>, <<"U">>, <<"A", "C">> >>

\* the columns of the five ranges
RangeColumns ==
    UNION {column_index_from_string(ranges[i][1]) ..
           column_index_from_string(ranges[i][2]) : i \in 1..Len(ranges)}

\* for r in range(4, 41): for c in range(start_idx, end_idx + 1)
ClearRegion == {<<r, c>> : r \in FirstDayRow..LastDayRow, c \in RangeColumns}

\* lines 99-123: value and hyperlink of every cell of the ranges cleared
ClearRanges(ws) ==
    MapRegion(ws, ClearRegion, LAMBDA p, cell : ClearCellKeepFormat(cell))

\* a faulty label loop: range(1, last_day_num) leaves out the last day
LabelDays_without_last(cur) ==
    {d \in 1..(monthrange(cur.year, cur.month) - 1) :
        FirstDayRow + (d - 1) <= LastDayRow}

\* the days the label loop reaches: d in 1..last_day_num while row <= 40
LabelDays(cur) ==
    {d \in 1..monthrange(cur.year, cur.month) :
        FirstDayRow + (d - 1) <= LastDayRow}

\* lines 125-148: the label of day d in every label column of row 3 + d
WriteLabels(ws, cur) ==
    MapRegion(ws,
        {<<FirstDayRow + (d - 1), column_index_from_string(label_cols[i])>> :
            d \in LabelDays(cur), i \in 1..Len(label_cols)},
        LAMBDA p, cell :
            set_cell_value_keep_format(cell,
                LabelVal(cur.month, p[1] - FirstDayRow + 1)))

\* a faulty preference: the previous month's sheet before the Template
CloneSource_prev_first(wb, cur) ==
    LET prev == prev_month_last_day(cur)
        prev_name == PeriodName(prev.year, prev.month)
    IN IF prev_name \in sheetnames(wb)
       THEN copy_worksheet(wb, SheetIndex(wb, prev_name))
       ELSE IF template_sheet_name \in sheetnames(wb)
            THEN copy_worksheet(wb, SheetIndex(wb, template_sheet_name))
            ELSE create_sheet(wb)

\* lines 77-91: the workbook with the new sheet appended: a copy of the
\* Template sheet, else of the previous month's sheet, else an empty sheet
CloneSource(wb, cur) ==
    LET prev == prev_month_last_day(cur)
        prev_name == PeriodName(prev.year, prev.month)
    IN IF template_sheet_name \in sheetnames(wb)
       THEN copy_worksheet(wb, SheetIndex(wb, template_sheet_name))
       ELSE IF prev_name \in sheetnames(wb)
            THEN copy_worksheet(wb, SheetIndex(wb, prev_name))
            ELSE create_sheet(wb)

\* a faulty move: the new sheet changes places with the first sheet
MoveToFront_swap(wb, idx_new) ==
    [i \in 1..Len(wb) |->
        IF i = 1 THEN wb[idx_new] ELSE IF i = idx_new THEN wb[1] ELSE wb[i]]

\* lines 95-97: sheets.insert(0, sheets.pop(idx_new))
MoveToFront(wb, idx_new) ==
    <<wb[idx_new]>> \o SubSeq(wb, 1, idx_new - 1)
                    \o SubSeq(wb, idx_new + 1, Len(wb))

\* a faulty guard: the early return is never taken
MonthSheetExists_never(wb, sheet_name) == FALSE

\* line 74: the early return
MonthSheetExists(wb, sheet_name) == sheet_name \in sheetnames(wb)

\* a faulty reference: the index new_ws had before it was moved
NewSheetIndex_stale(wb) == Len(wb)

\* where new_ws is once it has been moved to the front
NewSheetIndex(wb) == 1

EnsureMonthSheet(wb, cur) ==
    LET sheet_name == PeriodName(cur.year, cur.month)
    IN IF MonthSheetExists(wb, sheet_name) THEN wb
       ELSE LET cloned == CloneSource(wb, cur)
                titled == SetTitle(cloned, Len(cloned), sheet_name)
                moved == MoveToFront(titled, Len(titled))
                new_ws == NewSheetIndex(moved)
                cleared == [moved EXCEPT ![new_ws] = ClearRanges(@)]
            IN [cleared EXCEPT ![new_ws] = WriteLabels(@, cur)]

\* the points at which provisioning can raise: in copy_worksheet or
\* create_sheet (line 89 or 91), at the first cell cleared (line 114), at
\* the first label written (line 140)
ProvisionFaults == {"copy", "clear", "label"}

\* _ensure_month_sheet_exists with its handler (lines 152-153): what the
\* workbook is left as when the try block raises at the given point
_ensure_month_sheet_exists(wb, cur, fault) ==
    LET sheet_name == PeriodName(cur.year, cur.month)
        cloned == CloneSource(wb, cur)
        titled == SetTitle(cloned, Len(cloned), sheet_name)
        moved == MoveToFront(titled, Len(titled))
        new_ws == NewSheetIndex(moved)
    IN IF MonthSheetExists(wb, sheet_name) \/ fault \notin ProvisionFaults
       THEN EnsureMonthSheet(wb, cur)
       ELSE IF fault = "copy" THEN wb
       ELSE IF fault = "clear" THEN moved
       ELSE [moved EXCEPT ![new_ws] = ClearRanges(@)]

(***************************************************************************)
(* MetricResultStore: ProcessData, and _get_query_result                   *)
(***************************************************************************)
NoResult == [found |-> FALSE, has_data |-> FALSE, partial |-> FALSE, tables |-> << >>]

_get_query_result(processed_data, query_key) ==
    IF query_key \in DOMAIN processed_data.user_count_results
    THEN processed_data.user_count_results[query_key]
    ELSE IF query_key \in DOMAIN processed_data.stroke_count_results
    THEN processed_data.stroke_count_results[query_key]
    ELSE IF query_key \in DOMAIN processed_data.unknown_results
    THEN processed_data.unknown_results[query_key]
    ELSE NoResult

\* result and result.get("data") and result["data"].tables
HasTables(result) ==
    result.found /\ result.has_data /\ Len(result.tables) > 0

(***************************************************************************)
(* CumulativeReportUpdater: DailyMonitorFactory._fill_daily_data           *)
(***************************************************************************)
column_mappings ==
    [daily_alm_chat_count |-> << <<"B">>, <<"C">> >>,
     daily_alm_dashboard_count |-> << <<"D">>, <<"E">> >>,
     daily_doc_search_count |-> << <<"H">>, <<"I">> >>,
     daily_my_assistant_search_count |-> << <<"P">>, <<"Q">> >>,
     daily_my_assistant_upload_count |-> << <<"R">>, <<"S">> >>,
     daily_market_report_web_count |-> << <<"V">>, <<"W">> >>,
     daily_company_analyze_count |-> << <<"X">>, <<"Y">> >>,
     daily_market_report_bot_count |-> << <<"Z">>, <<"A", "A">> >>,
     daily_brain_count |-> << <<"A", "D">>, <<"A", "E">> >>]

cost_cols == << <<"J">>, <<"K">>, <<"L">>, <<"M">> >>

NotFound == 0

\* str(cell_value).strip() == f"{month}月{day}日"
StripEquals(v, month, day) ==
    v.k \in {"label", "padlabel"} /\ v.a = month /\ v.b = day

\* a faulty locator: the last row of column A holding the date's label
_find_date_row_last(ws, cur) ==
    LET hits == {r \in 1..max_row(ws) :
                    LET v == ValueAt(ws, r, column_index_from_string(<<"A">>))
                    IN Truthy(v) /\ StripEquals(v, cur.month, cur.day)}
    IN IF hits = {} THEN NotFound
       ELSE CHOOSE r \in hits : \A q \in hits : r >= q

\* a faulty locator: the first day row when no label matches
_find_date_row_or_first(ws, cur) ==
    LET hits == {r \in 1..max_row(ws) :
                    LET v == ValueAt(ws, r, column_index_from_string(<<"A">>))
                    IN Truthy(v) /\ StripEquals(v, cur.month, cur.day)}
    IN IF hits = {} THEN FirstDayRow
       ELSE CHOOSE r \in hits : \A q \in hits : r <= q

\* _find_date_row: the first row of column A holding the date's label
_find_date_row(ws, cur) ==
    LET hits == {r \in 1..max_row(ws) :
                    LET v == ValueAt(ws, r, column_index_from_string(<<"A">>))
                    IN Truthy(v) /\ StripEquals(v, cur.month, cur.day)}
    IN IF hits = {} THEN NotFound
       ELSE CHOOSE r \in hits : \A q \in hits : r <= q

\* a faulty sample: the last row of the table instead of the first
MetricSample_last_row(result) ==
    IF HasTables(result)
    THEN LET rows == result.tables[1].rows
         IN IF Len(rows) > 0 /\ Len(rows[Len(rows)]) >= 2
            THEN <<rows[Len(rows)][1], rows[Len(rows)][2]>>
            ELSE <<IntVal(0), IntVal(0)>>
    ELSE <<IntVal(0), IntVal(0)>>

\* a faulty default: a metric without rows gets no number
MetricSample_no_default(result) ==
    IF HasTables(result)
    THEN LET rows == result.tables[1].rows
         IN IF Len(rows) > 0 /\ Len(rows[1]) >= 2
            THEN <<rows[1][1], rows[1][2]>>
            ELSE <<None, None>>
    ELSE <<None, None>>

\* lines 207-224: the two values written for one metric
MetricSample(result) ==
    IF HasTables(result)
    THEN LET rows == result.tables[1].rows
         IN IF Len(rows) > 0 /\ Len(rows[1]) >= 2
            THEN <<rows[1][1], rows[1][2]>>
            ELSE <<IntVal(0), IntVal(0)>>
    ELSE <<IntVal(0), IntVal(0)>>

\* cell.value = value raises for a value openpyxl cannot store: a string
\* with illegal characters, a value of a type that is no cell type
Storable(v) == ~(v.k = "other" \/ (v.k = "str" /\ v.b > 0))

\* lines 207-214 raise: result["data"].tables of a partial result, or the
\* assignment of a first-row value that cannot be stored
Raises(result) ==
    \/ result.found /\ result.has_data /\ result.partial
    \/ /\ HasTables(result)
       /\ LET rows == result.tables[1].rows
          IN /\ Len(rows) > 0
             /\ Len(rows[1]) >= 2
             /\ ~(Storable(rows[1][1]) /\ Storable(rows[1][2]))

\* a faulty handler: the metric that raised is left as it was written
MetricCells_no_sentinel(result) == MetricSample(result)

\* lines 204-229: the two values one metric ends with, "ERROR" in both
\* columns when the try block raised
MetricCells(result) ==
    IF Raises(result) THEN <<ErrorVal, ErrorVal>> ELSE MetricSample(result)

\* lines 203-224: column -> value over the nine metrics
MetricWrites(processed_data) ==
    LET keys == DOMAIN column_mappings
        colOf(key, i) == column_index_from_string(column_mappings[key][i])
        cols == {colOf(key, i) : key \in keys, i \in 1..2}
    IN [c \in cols |->
          LET key == CHOOSE k \in keys : \E i \in 1..2 : colOf(k, i) = c
              i == CHOOSE j \in 1..2 : colOf(key, j) = c
          IN MetricCells(_get_query_result(processed_data, key))[i]]

\* line 231: if mtd_costs
CostsSupplied(mtd_costs) == mtd_costs.given /\ Len(mtd_costs.items) > 0

\* a faulty cost fill: the unfilled slots are left alone
CostWrites_no_default(mtd_costs) ==
    LET cost_items == mtd_costs.items
        n == IF Len(cost_items) < Len(cost_cols) THEN Len(cost_items) ELSE Len(cost_cols)
    IN [c \in {column_index_from_string(cost_cols[i]) : i \in 1..n} |->
          LET idx == CHOOSE i \in 1..n : column_index_from_string(cost_cols[i]) = c
          IN cost_items[idx][2]]

\* lines 233-240: column -> value over the cost columns
CostWrites(mtd_costs) ==
    LET cost_items == mtd_costs.items
        n == Len(cost_cols)
    IN [c \in {column_index_from_string(cost_cols[i]) : i \in 1..n} |->
          LET idx == CHOOSE i \in 1..n : column_index_from_string(cost_cols[i]) = c
          IN IF idx <= Len(cost_items) THEN cost_items[idx][2] ELSE IntVal(0)]

\* a faulty row address: the row above the target row
WriteRow_row_above(ws, row, colvals) ==
    MapRegion(ws, {<<row - 1, c>> : c \in DOMAIN colvals},
        LAMBDA p, cell : set_cell_value_keep_format(cell, colvals[p[2]]))

\* the row's cells of the given columns written through the keep-format
\* write; the sentinel is assigned directly (ws[...] = "ERROR", lines 228-229)
WriteRow(ws, row, colvals) ==
    MapRegion(ws, {<<row, c>> : c \in DOMAIN colvals},
        LAMBDA p, cell :
            IF colvals[p[2]] = ErrorVal
            THEN AssignValue(cell, ErrorVal)
            ELSE set_cell_value_keep_format(cell, colvals[p[2]]))

FillDailyData(wb, processed_data, cur, mtd_costs) ==
    LET sheet_name == PeriodName(cur.year, cur.month)
    IN IF sheet_name \notin sheetnames(wb) THEN wb
       ELSE LET idx == SheetIndex(wb, sheet_name)
                target_row == _find_date_row(wb[idx], cur)
                metrics == WriteRow(wb[idx], target_row, MetricWrites(processed_data))
                costs == IF CostsSupplied(mtd_costs)
                         THEN WriteRow(metrics, target_row, CostWrites(mtd_costs))
                         ELSE metrics
            IN IF target_row = NotFound THEN wb
               ELSE [wb EXCEPT ![idx] = costs]

(***************************************************************************)
(* HistoryReportBuilder: _fill_history_data_to_sheets and                  *)
(* _clear_worksheet_data.  The category sheets are named by number:        *)
(* 1 外貨ALM-Chat, 2 外貨ALM-Dashboard, 3 ドキュメントサーチ,                  *)
(* 4 My Assistant-検索, 5 My Assistant-アップロード, 6 マーケット分析Web,       *)
(* 7 マーケット分析Bot, 8 会社情報, 9 為替分析Brain.                          *)
(***************************************************************************)
sheet_mappings ==
    [daily_alm_chat_history |-> CategoryName(1),
     daily_alm_dashboard_history |-> CategoryName(2),
     daily_doc_search_history |-> CategoryName(3),
     daily_my_assistant_search_history |-> CategoryName(4),
     daily_my_assistant_upload_history |-> CategoryName(5),
     daily_market_report_web_history |-> CategoryName(6),
     daily_market_report_bot_history |-> CategoryName(7),
     daily_company_analyze_history |-> CategoryName(8),
     daily_brain_history |-> CategoryName(9)]

\* a faulty sanitizer: value[:max_len] first, the illegal characters
\* (taken to lead the string) removed from what is left
StripAndTruncate_cut_first(v) ==
    LET kept == IF v.a + v.b > max_len THEN max_len ELSE v.a + v.b
    IN [k |-> "str", a |-> IF kept > v.b THEN kept - v.b ELSE 0, b |-> 0]

\* ILLEGAL_CHARACTERS_RE.sub("", value), then value[:max_len]
StripAndTruncate(v) ==
    [k |-> "str", a |-> IF v.a > max_len THEN max_len ELSE v.a, b |-> 0]

\* value.decode("utf-8", errors="ignore"): the characters the bytes encode
decode(value) == StrVal(value.a, value.b)

\* str(value): for bytes the literal b'...', every control character as
\* \xNN; for a value of another type its n characters
str_of(value) ==
    IF value.k = "bytes" THEN StrVal(value.a + 4 * value.b + 3, 0)
    ELSE StrVal(value.a, value.b)

\* the abstract strings of the model (labels, texts, "ERROR"): short and
\* without illegal characters
IsPlainString(value) == value.k \in {"label", "padlabel", "text", "error"}

_sanitize_excel_value(value) ==
    IF value.k = "none" THEN None
    ELSE IF value.k \in {"datetime", "tzdatetime", "date", "time"} THEN value
    ELSE IF value.k \in {"int", "float"} THEN value
    ELSE IF value.k = "bytes" THEN StripAndTruncate(decode(value))
    ELSE IF value.k = "str" THEN StripAndTruncate(value)
    ELSE IF IsPlainString(value) THEN value
    ELSE StripAndTruncate(str_of(value))

\* _convert_timezone_aware_datetimes: a column whose first value is a
\* timezone-aware datetime becomes naive JST wall time
_convert_timezone_aware_datetimes(rows) ==
    [i \in 1..Len(rows) |->
        [j \in 1..Len(rows[i]) |->
            IF rows[1][j].k = "tzdatetime" /\ rows[i][j].k = "tzdatetime"
            THEN DateTimeVal(rows[i][j].a + JstOffsetHours)
            ELSE rows[i][j]]]

\* a faulty clear: the hyperlinks are left in place
_clear_worksheet_data_keeps_links(ws) ==
    IF max_row(ws) > 1
    THEN MapRegion(ws,
            {<<r, c>> : r \in HistoryFirstDataRow..max_row(ws),
                        c \in 1..max_column(ws)},
            LAMBDA p, cell : AssignValue(cell, None))
    ELSE ws

\* _clear_worksheet_data: value and hyperlink of every cell of rows
\* 2..max_row (iter_rows runs over the columns 1..max_column)
_clear_worksheet_data(ws) ==
    IF max_row(ws) > 1
    THEN MapRegion(ws,
            {<<r, c>> : r \in HistoryFirstDataRow..max_row(ws),
                        c \in 1..max_column(ws)},
            LAMBDA p, cell : [AssignValue(cell, None) EXCEPT !.hyperlink = FALSE])
    ELSE ws

\* a faulty row count: enumerate from 1, over the header
HistoryRow_from_header(i) == i

\* enumerate(df.iterrows(), start=2)
HistoryRow(i) == HistoryFirstDataRow + (i - 1)

\* ws.cell(row, column, value): the value is assigned unless it is None
CellWithValue(cell, value) ==
    IF value = None THEN cell ELSE AssignValue(cell, value)

\* lines 345-353: the table written row-major from row 2, column 1
WriteHistoryRows(ws, table) ==
    LET df == _convert_timezone_aware_datetimes(table.rows)
    IN MapRegion(ws,
          {<<HistoryRow(i), j>> : i \in 1..Len(df), j \in 1..Len(table.columns)},
          LAMBDA p, cell :
              LET i == CHOOSE q \in 1..Len(df) : HistoryRow(q) = p[1]
              IN CellWithValue(cell, _sanitize_excel_value(df[i][p[2]])))

\* pd.DataFrame(data=rows, columns=columns) raises when the rows do not
\* have as many values as there are columns
WellFormed(table) ==
    \A i \in 1..Len(table.rows) : Len(table.rows[i]) = Len(table.columns)

\* lines 339-357: one category sheet; when the DataFrame cannot be built
\* the sheet is left cleared (the exception is caught at line 359)
FillCategorySheet(ws, result) ==
    IF HasTables(result)
    THEN IF WellFormed(result.tables[1])
         THEN WriteHistoryRows(_clear_worksheet_data(ws), result.tables[1])
         ELSE _clear_worksheet_data(ws)
    ELSE ws

\* how the loop body ends for one category: the sheet is missing (line
\* 336), the body raised (line 359), rows were filled, or there was no data
CategoryOutcome(workbook, processed_data, key) ==
    LET result == _get_query_result(processed_data, key)
    IN IF sheet_mappings[key] \notin sheetnames(workbook) THEN "no_sheet"
       ELSE IF result.found /\ result.has_data /\ result.partial THEN "raised"
       ELSE IF HasTables(result)
            THEN IF WellFormed(result.tables[1]) THEN "filled" ELSE "raised"
            ELSE "no_data"

\* the nine category keys in the order of sheet_mappings
history_keys ==
    <<"daily_alm_chat_history", "daily_alm_dashboard_history",
      "daily_doc_search_history", "daily_my_assistant_search_history",
      "daily_my_assistant_upload_history", "daily_market_report_web_history",
      "daily_market_report_bot_history", "daily_company_analyze_history",
      "daily_brain_history">>

\* a faulty loop: the first category that raises ends the loop
AttemptedKeys_until_failure(workbook, processed_data) ==
    LET fails == {n \in 1..Len(history_keys) :
                    CategoryOutcome(workbook, processed_data, history_keys[n]) = "raised"}
    IN IF fails = {} THEN history_keys
       ELSE SubSeq(history_keys, 1, CHOOSE n \in fails : \A m \in fails : n <= m)

\* the categories the loop of line 333 reaches: the except of line 359
\* continues with the next one
AttemptedKeys(workbook, processed_data) == history_keys

_fill_history_data_to_sheets(workbook, processed_data) ==
    LET keys == AttemptedKeys(workbook, processed_data)
        reached == {keys[n] : n \in 1..Len(keys)}
    IN [i \in 1..Len(workbook) |->
          IF \E key \in reached :
                /\ sheet_mappings[key] = workbook[i].title
                /\ SheetIndex(workbook, workbook[i].title) = i
          THEN LET key == CHOOSE q \in reached :
                              sheet_mappings[q] = workbook[i].title
               IN FillCategorySheet(workbook[i],
                                    _get_query_result(processed_data, key))
          ELSE workbook[i]]

(***************************************************************************)
(* Persistence: load_workbook and workbook.save.  The writer leaves out    *)
(* every cell that has no value, no style and no hyperlink.                *)
(***************************************************************************)
SaveSheet(ws) ==
    [ws EXCEPT !.cells =
        [p \in {q \in DOMAIN ws.cells : ws.cells[q] # EmptyCell} |-> ws.cells[p]]]

SaveWorkbook(wb) == [i \in 1..Len(wb) |-> SaveSheet(wb[i])]

load_workbook(file) == file.wb

NoFile == [exists |-> FALSE, wb |-> << >>]
FileOf(wb) == [exists |-> TRUE, wb |-> wb]

(***************************************************************************)
(* The inputs of a run: the stores, the cost mappings and the target dates *)
(* the model draws from.                                                   *)
(***************************************************************************)
count_keys ==
    <<"daily_alm_chat_count", "daily_alm_dashboard_count",
      "daily_doc_search_count", "daily_my_assistant_search_count",
      "daily_my_assistant_upload_count", "daily_market_report_web_count",
      "daily_company_analyze_count", "daily_market_report_bot_count",
      "daily_brain_count">>

Table(rows) == [columns |-> <<"c1", "c2", "c3">>, rows |-> rows]
Result(tables) == [found |-> TRUE, has_data |-> TRUE, partial |-> FALSE, tables |-> tables]
ResultNoData == [found |-> TRUE, has_data |-> FALSE, partial |-> FALSE, tables |-> << >>]
\* a result whose "data" is a partial result: it has no attribute tables
PartialResult == [found |-> TRUE, has_data |-> TRUE, partial |-> TRUE, tables |-> << >>]

\* the value at position j of row i in the table of key number n of store k
SampleVal(k, n, i, j) == IntVal(1000 * (k + 1) + 100 * n + 10 * i + j)

\* the shape of key number n in store k: every key meets every shape
CountShape(k, n) == (n + k) % 9

CountResult(k, n) ==
    LET v(i, j) == SampleVal(k, n, i, j)
        s == CountShape(k, n)
    IN CASE s = 1 -> Result(<<Table(<< <<v(1, 1), v(1, 2)>> >>)>>)
         [] s = 2 -> Result(<<Table(<< <<v(1, 1), v(1, 2)>>, <<v(2, 1), v(2, 2)>> >>)>>)
         [] s = 3 -> Result(<<Table(<< <<v(1, 1), v(1, 2), v(1, 3)>>,
                                       <<v(2, 1), v(2, 2), v(2, 3)>> >>)>>)
         [] s = 4 -> Result(<< >>)
         [] s = 5 -> ResultNoData
         [] s = 6 -> Result(<<Table(<< >>)>>)
         [] s = 7 -> Result(<<Table(<< <<v(1, 1)>>, <<v(2, 1), v(2, 2)>> >>)>>)
         [] OTHER -> Result(<<Table(<< <<v(3, 1), v(3, 2)>>, <<v(4, 1), v(4, 2)>> >>),
                              Table(<< <<v(5, 1), v(5, 2)>> >>)>>)

\* the category mapping a key of that shape is filed under (0: in none)
CountCategory(k, n) ==
    LET s == CountShape(k, n)
    IN IF s = 0 THEN "absent"
       ELSE IF s \in {2, 8} THEN "user_count"
       ELSE IF s = 3 THEN "stroke_count"
       ELSE "unknown"

KeyNumber(keys, key) == CHOOSE n \in 1..Len(keys) : keys[n] = key

CountMapping(k, category) ==
    [key \in {count_keys[n] : n \in {m \in 1..Len(count_keys) :
                                        CountCategory(k, m) = category}} |->
        CountResult(k, KeyNumber(count_keys, key))]

CountStore(k) ==
    [user_count_results |-> CountMapping(k, "user_count"),
     stroke_count_results |-> CountMapping(k, "stroke_count"),
     unknown_results |-> CountMapping(k, "unknown")]

NoCosts == [given |-> FALSE, items |-> << >>]
Costs(n) ==
    [given |-> TRUE, items |-> [i \in 1..n |-> <<i, IntVal(9000 + 10 * n + i)>>]]

Utc(y, m, d, h) == [year |-> y, month |-> m, day |-> d, hour |-> h]

Inputs ==
    {[end_time |-> Utc(2025, 7, 31, 1), store |-> 0, mtd_costs |-> NoCosts],
     [end_time |-> Utc(2025, 7, 31, 1), store |-> 1, mtd_costs |-> Costs(2)],
     [end_time |-> Utc(2025, 7, 31, 20), store |-> 2, mtd_costs |-> Costs(2)],
     [end_time |-> Utc(2025, 8, 6, 23), store |-> 3, mtd_costs |-> Costs(5)],
     [end_time |-> Utc(2025, 8, 6, 23), store |-> 4, mtd_costs |-> Costs(0)],
     [end_time |-> Utc(2025, 9, 30, 3), store |-> 5, mtd_costs |-> Costs(4)],
     [end_time |-> Utc(2024, 2, 29, 0), store |-> 6, mtd_costs |-> Costs(2)],
     [end_time |-> Utc(2025, 2, 28, 5), store |-> 7, mtd_costs |-> NoCosts],
     [end_time |-> Utc(2025, 12, 31, 15), store |-> 8, mtd_costs |-> Costs(1)]}

NoInput == [end_time |-> Utc(0, 0, 0, 0), store |-> 0, mtd_costs |-> NoCosts]

(***************************************************************************)
(* The workbooks a run can find: the master template file and what earlier *)
(* runs persisted.                                                         *)
(***************************************************************************)
Styled(value, n, link) ==
    [value |-> value, style |-> ScaffoldStyle(n), hyperlink |-> link]

TemplateSheet ==
    [title |-> template_sheet_name,
     cells |->
        (<<1, 1>> :> Styled(TextVal(1), 1, FALSE))
        @@ (<<3, 1>> :> Styled(TextVal(2), 2, FALSE))
        @@ (<<3, 2>> :> Styled(TextVal(3), 2, FALSE))
        @@ (<<3, 10>> :> Styled(TextVal(4), 2, FALSE))
        @@ (<<4, 1>> :> Styled(TextVal(5), 3, FALSE))
        @@ (<<4, 2>> :> Styled(None, 3, TRUE))
        @@ (<<4, 6>> :> Styled(TextVal(6), 3, FALSE))
        @@ (<<34, 1>> :> Styled(TextVal(10), 3, FALSE))
        @@ (<<34, 3>> :> Styled(IntVal(7), 3, FALSE))
        @@ (<<40, 31>> :> Styled(None, 3, FALSE))
        @@ (<<41, 1>> :> Styled(TextVal(8), 2, FALSE))]

OtherSheet ==
    [title |-> OtherName(1),
     cells |-> (<<1, 1>> :> Styled(TextVal(9), 1, FALSE))
               @@ (<<5, 2>> :> Styled(IntVal(5), 1, FALSE))]

MasterTemplate == FileOf(<<TemplateSheet>>)

\* what a run for 30 July 2025 (JST) leaves of a workbook
EarlierRun(wb) ==
    LET cur == astimezone_jst(Utc(2025, 7, 30, 2))
    IN SaveWorkbook(FillDailyData(EnsureMonthSheet(wb, cur),
                                  CountStore(2), cur, Costs(3)))

\* the workbook of a deployment that has run: July's sheet and the template
RunWorkbook == EarlierRun(<<TemplateSheet>>)

\* a workbook without the Template sheet: December's sheet (made from no
\* source), July's sheet and a sheet of another kind
BareWorkbook ==
    SaveWorkbook(EnsureMonthSheet(<<RunWorkbook[1], OtherSheet>>,
                                  astimezone_jst(Utc(2025, 12, 1, 0))))

InitialFiles == {NoFile, FileOf(RunWorkbook), FileOf(BareWorkbook)}

(***************************************************************************)
(* The history template file and the stores of a history build.            *)
(***************************************************************************)
\* row i of the table of key number n in store k: a number, a string with
\* control characters (None in the second row), a timezone-aware datetime
HistoryTableRow(k, n, i) ==
    <<IntVal(1000 * (k + 1) + 100 * n + i),
      IF i = 2 THEN None ELSE StrVal(40000 * (i - 1) + n, i),
      TzDateTimeVal(24 * n + i)>>

HistoryShape(k, n) == (n + k) % 7

HistoryResult(k, n) ==
    LET s == HistoryShape(k, n)
    IN CASE s = 1 -> Result(<<Table(<<HistoryTableRow(k, n, 1)>>)>>)
         [] s = 2 -> Result(<<Table([i \in 1..3 |-> HistoryTableRow(k, n, i)])>>)
         [] s = 3 -> ResultNoData
         [] s = 4 -> Result(<<Table(<< >>)>>)
         [] s = 5 -> Result(<<Table([i \in 1..2 |-> HistoryTableRow(k, n, i)])>>)
         [] OTHER -> Result(<< >>)

HistoryStore(k) ==
    [user_count_results |-> [key \in {} |-> NoResult],
     stroke_count_results |-> [key \in {} |-> NoResult],
     unknown_results |->
        [key \in {history_keys[n] : n \in {m \in 1..Len(history_keys) :
                                              HistoryShape(k, m) # 0}} |->
            HistoryResult(k, KeyNumber(history_keys, key))]]

HeaderCells ==
    [p \in {<<1, c>> : c \in 1..3} |-> Styled(TextVal(20 + p[2]), 4, FALSE)]

\* data rows left in the template: rows 2..5, a hyperlink, a value in a
\* fourth column and a styled cell in row 7
StaleCells(n) ==
    [p \in {<<r, c>> : r \in 2..5, c \in 1..3} |->
        [value |-> IntVal(500 + 10 * n + p[1]), style |-> DefaultStyle,
         hyperlink |-> p = <<3, 2>>]]
    @@ (<<2, 4>> :> Styled(TextVal(30 + n), 4, FALSE))
    @@ (<<7, 1>> :> Styled(None, 4, FALSE))

CategorySheet(n, stale) ==
    [title |-> CategoryName(n),
     cells |-> IF stale THEN HeaderCells @@ StaleCells(n) ELSE HeaderCells]

\* a template whose odd category sheets hold data rows; the ninth category
\* sheet is missing, a sheet of another kind is present
HistoryTemplateWithRows ==
    [n \in 1..8 |-> CategorySheet(n, n % 2 = 1)] \o <<OtherSheet>>

\* a template of nine category sheets of headers only
HistoryTemplateBare == [n \in 1..9 |-> CategorySheet(n, FALSE)]

HistoryTemplates == {FileOf(HistoryTemplateWithRows), FileOf(HistoryTemplateBare)}

Jst(y, m, d) == [year |-> y, month |-> m, day |-> d]

HistoryInputs ==
    {[now |-> d, store |-> k] : d \in {Jst(2025, 8, 7), Jst(2025, 8, 8)},
                                k \in 0..5}

NoHistoryInput == [now |-> Jst(0, 0, 0), store |-> 0]
NoHistoryFiles == [d \in {} |-> << >>]

(***************************************************************************)
(* State.                                                                  *)
(***************************************************************************)
VARIABLES
    disk,       \* the file at the canonical path of the usage workbook
    master,     \* the master template file
    wb,         \* the workbook the run holds in memory (<< >>: none)
    pc,         \* the run's position
    inp,        \* the run's inputs
    nruns,      \* the number of runs completed
    prev,       \* the workbook as the current or last run loaded it
    last,       \* the inputs of the last completed run
    htemplate,  \* the history template file
    hist,       \* the history workbooks written, by the date in their path
    hwb,        \* the history workbook the build holds in memory
    hpc,        \* the history build's position
    hinp,       \* the history build's inputs
    hruns,      \* the number of history builds completed
    hlast,      \* the inputs of the last completed history build
    rpc,        \* the position of AppActivityMonitor.run
    rinp,       \* the inputs and faults of that run
    generated_files, \* the files generate_daily_monitor_report has collected
    reports,    \* what became of each report of the run
    uploaded,   \* the files handed to upload and email delivery
    log,        \* what the run did to its workbooks, in order
    probe,      \* a single cell or value a helper is applied to
    jobs,       \* the runs that share the usage workbook's path concurrently
    outdir,     \* the output base directory: whether it exists, its entries
    cleanup,    \* the last call of cleanup_old_output_directories
    dl,         \* the download step before a run: its position, the blob
    sched       \* the scheduler of app.py: its jobs, its clock, their runs

usage_vars == <<disk, master, wb, pc, inp, nruns, prev, last>>
history_vars == <<htemplate, hist, hwb, hpc, hinp, hruns, hlast>>
pipeline_vars == <<rpc, rinp, generated_files, reports, uploaded, log>>
extra_vars == <<jobs, outdir, cleanup, dl, sched>>
vars == <<usage_vars, history_vars, pipeline_vars, probe, extra_vars>>

current_date == astimezone_jst(inp.end_time)

UsageIdle ==
    /\ master = MasterTemplate
    /\ wb = << >>
    /\ pc = "idle"
    /\ inp = NoInput
    /\ nruns = 0
    /\ prev = << >>
    /\ last = NoInput

HistoryIdle ==
    /\ hist = NoHistoryFiles
    /\ hwb = << >>
    /\ hpc = "idle"
    /\ hinp = NoHistoryInput
    /\ hruns = 0
    /\ hlast = NoHistoryInput

\* no run of the pipeline has started
NoRunInput ==
    [end_time |-> Utc(0, 0, 0, 0), now |-> Jst(0, 0, 0), store |-> 0,
     bad_data |-> FALSE, mtd_costs |-> NoCosts, fault |-> "none"]

NoReports == [usage |-> "not_attempted", history |-> "not_attempted"]

PipelineIdle ==
    /\ rpc = "idle"
    /\ rinp = NoRunInput
    /\ generated_files = << >>
    /\ reports = NoReports
    /\ uploaded = << >>
    /\ log = << >>

\* no concurrent run has started
NoJob == [pc |-> "idle", wb |-> << >>, inp |-> NoInput, seen |-> 0, stale |-> FALSE]
NoJobs == [saves |-> 0, run |-> [j \in 1..MaxJobs |-> NoJob]]

\* the output base directory holding nothing, and no cleanup call yet
EmptyOutdir == [exists |-> TRUE, entries |-> {}]
NoCleanup ==
    [calls |-> 0, now |-> [year |-> 0, month |-> 0, day |-> 0, hour |-> 0],
     days_threshold |-> 0, before |-> EmptyOutdir, after |-> EmptyOutdir,
     returned |-> {}]

\* the download step has not started
NoFaults == [first |-> "none", upload |-> "none", second |-> "none"]
NoDownload ==
    [pc |-> "idle", blob |-> NoFile, skip |-> FALSE, fault |-> NoFaults,
     before |-> NoFile, outcome |-> "none"]

\* the scheduler has not been started
NoSched ==
    [mode |-> "none", clock |-> 0, running |-> {}, runs |-> 0, skipped |-> 0,
     started |-> 0, at_start |-> {}]

ExtraIdle ==
    /\ jobs = NoJobs
    /\ outdir = EmptyOutdir
    /\ cleanup = NoCleanup
    /\ dl = NoDownload
    /\ sched = NoSched

\* no helper is being applied
NoProbe == [op |-> "none", cell |-> EmptyCell, value |-> None, out |-> EmptyCell]

Init ==
    /\ disk \in InitialFiles
    /\ UsageIdle
    /\ htemplate = FileOf(HistoryTemplateBare)
    /\ HistoryIdle
    /\ PipelineIdle
    /\ probe = NoProbe
    /\ ExtraIdle

\* a run starts with its inputs
StartRun ==
    /\ pc = "idle"
    /\ nruns < MaxRuns
    /\ \E i \in Inputs : inp' = i
    /\ pc' = "start"
    /\ UNCHANGED <<disk, master, wb, nruns, prev, last>>
    /\ UNCHANGED <<history_vars, pipeline_vars, probe, extra_vars>>

\* _generate_cumulative_usage_report, lines 409-416, and load_workbook
OpenUsageWorkbook ==
    /\ pc = "start"
    /\ disk' = IF disk.exists THEN disk ELSE master
    /\ wb' = load_workbook(disk')
    /\ prev' = wb'
    /\ pc' = "loaded"
    /\ UNCHANGED <<master, inp, nruns, last>>
    /\ UNCHANGED <<history_vars, pipeline_vars, probe, extra_vars>>

\* _fill_template_with_data line 55
EnsureStep ==
    /\ pc = "loaded"
    /\ wb' = EnsureMonthSheet(wb, current_date)
    /\ pc' = "ensured"
    /\ UNCHANGED <<disk, master, inp, nruns, prev, last>>
    /\ UNCHANGED <<history_vars, pipeline_vars, probe, extra_vars>>

\* _fill_template_with_data line 57
FillStep ==
    /\ pc = "ensured"
    /\ wb' = FillDailyData(wb, CountStore(inp.store), current_date, inp.mtd_costs)
    /\ pc' = "filled"
    /\ UNCHANGED <<disk, master, inp, nruns, prev, last>>
    /\ UNCHANGED <<history_vars, pipeline_vars, probe, extra_vars>>

\* _fill_template_with_data line 59
SaveStep ==
    /\ pc = "filled"
    /\ disk' = FileOf(SaveWorkbook(wb))
    /\ wb' = << >>
    /\ pc' = "idle"
    /\ nruns' = nruns + 1
    /\ last' = inp
    /\ UNCHANGED <<master, inp, prev>>
    /\ UNCHANGED <<history_vars, pipeline_vars, probe, extra_vars>>

Next ==
    \/ StartRun
    \/ OpenUsageWorkbook
    \/ EnsureStep
    \/ FillStep
    \/ SaveStep

Spec == Init /\ [][Next]_vars

(***************************************************************************)
(* The history build: _generate_daily_history_report and                   *)
(* _fill_history_template_with_data.                                       *)
(***************************************************************************)
\* the date in the path f"市場GAI打鍵履歴_{date_str}.xlsx"
history_report_path(now) == Jst(now.year, now.month, now.day)

\* dict-like update of the files written
WriteFile(files, path, file) ==
    [q \in (DOMAIN files) \cup {path} |-> IF q = path THEN file ELSE files[q]]

InitHistory ==
    /\ disk = NoFile
    /\ UsageIdle
    /\ htemplate \in HistoryTemplates
    /\ HistoryIdle
    /\ PipelineIdle
    /\ probe = NoProbe
    /\ ExtraIdle

StartHistory ==
    /\ hpc = "idle"
    /\ hruns < MaxRuns
    /\ \E i \in HistoryInputs : hinp' = i
    /\ hpc' = "start"
    /\ UNCHANGED <<htemplate, hist, hwb, hruns, hlast>>
    /\ UNCHANGED <<usage_vars, pipeline_vars, probe, extra_vars>>

\* lines 424-438 and load_workbook (line 287)
CopyHistoryTemplate ==
    /\ hpc = "start"
    /\ htemplate.exists
    /\ hist' = WriteFile(hist, history_report_path(hinp.now), htemplate.wb)
    /\ hwb' = load_workbook(htemplate)
    /\ hpc' = "loaded"
    /\ UNCHANGED <<htemplate, hinp, hruns, hlast>>
    /\ UNCHANGED <<usage_vars, pipeline_vars, probe, extra_vars>>

\* line 289
FillHistoryStep ==
    /\ hpc = "loaded"
    /\ hwb' = _fill_history_data_to_sheets(hwb, HistoryStore(hinp.store))
    /\ hpc' = "filled"
    /\ UNCHANGED <<htemplate, hist, hinp, hruns, hlast>>
    /\ UNCHANGED <<usage_vars, pipeline_vars, probe, extra_vars>>

\* line 291
SaveHistoryStep ==
    /\ hpc = "filled"
    /\ hist' = WriteFile(hist, history_report_path(hinp.now), SaveWorkbook(hwb))
    /\ hwb' = << >>
    /\ hpc' = "idle"
    /\ hruns' = hruns + 1
    /\ hlast' = hinp
    /\ UNCHANGED <<htemplate, hinp>>
    /\ UNCHANGED <<usage_vars, pipeline_vars, probe, extra_vars>>

NextHistory ==
    \/ StartHistory
    \/ CopyHistoryTemplate
    \/ FillHistoryStep
    \/ SaveHistoryStep

SpecHistory == InitHistory /\ [][NextHistory]_vars

(***************************************************************************)
(* The pipeline: AppActivityMonitor.run in daily_monitor mode, with        *)
(* generate_daily_monitor_report and its two reports as whole operations,  *)
(* exceptions included.                                                    *)
(***************************************************************************)
Event(e, k, d) == [e |-> e, k |-> k, d |-> d]
NoDate == Jst(0, 0, 0)

\* the two paths generate_daily_monitor_report collects
usage_report_path == "usage_report_path"
history_path == "history_report_path"

\* a faulty handler: the exception of provisioning is raised again
ProvisioningPropagates_reraised(workbook, cur, fault) ==
    /\ fault \in ProvisionFaults
    /\ ~MonthSheetExists(workbook, PeriodName(cur.year, cur.month))

\* lines 152-153: the handler of _ensure_month_sheet_exists logs and
\* returns
ProvisioningPropagates(workbook, cur, fault) == FALSE

\* whether the try block of _ensure_month_sheet_exists raised
ProvisioningRaised(workbook, cur, fault) ==
    /\ fault \in ProvisionFaults
    /\ ~MonthSheetExists(workbook, PeriodName(cur.year, cur.month))

\* _fill_template_with_data (lines 41-64): load, ensure, fill, save; an
\* exception of load_workbook or of save is logged and raised again
_fill_template_with_data(file, processed_data, target_date, mtd_costs, fault) ==
    LET workbook == load_workbook(file)
        cur == astimezone_jst(target_date)
        ensured == _ensure_month_sheet_exists(workbook, cur, fault)
        filled == FillDailyData(ensured, processed_data, cur, mtd_costs)
        loaded == <<Event("load", 0, NoDate)>>
        provisioned ==
            Append(loaded,
                   Event(IF ProvisioningRaised(workbook, cur, fault)
                         THEN "ensure_raised" ELSE "ensure", 0, NoDate))
        written == Append(provisioned, Event("fill", 0, NoDate))
    IN IF fault = "load"
       THEN [raised |-> TRUE, file |-> file, loaded |-> << >>, events |-> << >>]
       ELSE IF ProvisioningPropagates(workbook, cur, fault)
       THEN [raised |-> TRUE, file |-> file, loaded |-> workbook,
             events |-> provisioned]
       ELSE IF fault = "save"
       THEN [raised |-> TRUE, file |-> file, loaded |-> workbook,
             events |-> written]
       ELSE [raised |-> FALSE, file |-> FileOf(SaveWorkbook(filled)),
             loaded |-> workbook,
             events |-> Append(written, Event("save_usage", 0, NoDate))]

\* a faulty choice of file: the master template even when a persisted
\* workbook exists
_generate_cumulative_usage_report_from_template(existing, template, processed_data, end_time, mtd_costs, fault) ==
    IF ~existing.exists /\ ~template.exists
    THEN [raised |-> TRUE, file |-> existing, loaded |-> << >>, events |-> << >>]
    ELSE _fill_template_with_data(IF template.exists THEN template ELSE existing,
                                  processed_data, end_time, mtd_costs, fault)

\* _generate_cumulative_usage_report (lines 403-420)
_generate_cumulative_usage_report(existing, template, processed_data, end_time, mtd_costs, fault) ==
    IF ~existing.exists /\ ~template.exists
    THEN [raised |-> TRUE, file |-> existing, loaded |-> << >>, events |-> << >>]
    ELSE _fill_template_with_data(IF existing.exists THEN existing ELSE template,
                                  processed_data, end_time, mtd_costs, fault)

\* the loop of _fill_history_data_to_sheets as events, one per category
\* reached
HistoryEvents(workbook, processed_data) ==
    LET keys == AttemptedKeys(workbook, processed_data)
    IN [n \in 1..Len(keys) |->
          Event(CategoryOutcome(workbook, processed_data, keys[n]),
                KeyNumber(history_keys, keys[n]), NoDate)]

\* _generate_daily_history_report (lines 422-443) with
\* _fill_history_template_with_data (lines 284-296)
_generate_daily_history_report(template, files, now, processed_data, fault) ==
    LET path == history_report_path(now)
        copied == WriteFile(files, path, template.wb)
        workbook == load_workbook(template)
        filled == _fill_history_data_to_sheets(workbook, processed_data)
        events == HistoryEvents(workbook, processed_data)
    IN IF ~template.exists
       THEN [raised |-> TRUE, files |-> files, events |-> << >>]
       ELSE IF fault = "history_load"
       THEN [raised |-> TRUE, files |-> copied, events |-> << >>]
       ELSE IF fault = "history_save"
       THEN [raised |-> TRUE, files |-> copied, events |-> events]
       ELSE [raised |-> FALSE,
             files |-> WriteFile(files, path, SaveWorkbook(filled)),
             events |-> Append(events, Event("save_history", 0, path))]

\* results that make a metric's or a category's processing raise: a
\* partial result, a first-row value openpyxl cannot store, a table whose
\* rows do not fit its columns
FaultyResults ==
    ("daily_alm_chat_count" :> PartialResult)
    @@ ("daily_doc_search_count" :>
            Result(<<Table(<< <<OtherVal(3), IntVal(31)>> >>)>>))
    @@ ("daily_brain_count" :>
            Result(<<Table(<< <<IntVal(32), StrVal(4, 1)>>,
                             <<IntVal(33), IntVal(34)>> >>)>>))
    @@ ("daily_alm_dashboard_history" :> PartialResult)
    @@ ("daily_doc_search_history" :>
            Result(<<[columns |-> <<"c1", "c2">>,
                      rows |-> << <<IntVal(35), IntVal(36), IntVal(37)>> >>]>>))

Without(mapping, keys) == [key \in (DOMAIN mapping) \ keys |-> mapping[key]]

\* the ProcessData of a run: the count queries and the history queries of
\* one fetch, with the faulty results in place of the store's when bad
RunStore(k, bad) ==
    LET faulty == IF bad THEN FaultyResults ELSE [key \in {} |-> NoResult]
        counts == CountStore(k)
    IN [user_count_results |-> Without(counts.user_count_results, DOMAIN faulty),
        stroke_count_results |-> Without(counts.stroke_count_results, DOMAIN faulty),
        unknown_results |->
            faulty @@ counts.unknown_results @@ HistoryStore(k).unknown_results]

RunInput(end_time, now, k, bad, mtd_costs, fault) ==
    [end_time |-> end_time, now |-> now, store |-> k, bad_data |-> bad,
     mtd_costs |-> mtd_costs, fault |-> fault]

\* runs of 7 August 2025 (JST) and of 31 July, a run that starts at 23h on
\* 7 August and builds its history after midnight, a run with faulty
\* results, and runs in which one step raises
RunInputs ==
    {RunInput(Utc(2025, 8, 6, 23), Jst(2025, 8, 7), 3, FALSE, Costs(2), "none"),
     RunInput(Utc(2025, 7, 31, 1), Jst(2025, 7, 31), 1, FALSE, NoCosts, "none"),
     RunInput(Utc(2025, 8, 7, 14), Jst(2025, 8, 8), 2, FALSE, Costs(2), "none"),
     RunInput(Utc(2025, 8, 6, 23), Jst(2025, 8, 7), 2, TRUE, Costs(2), "none")}
    \cup {RunInput(Utc(2025, 8, 6, 23), Jst(2025, 8, 7), 2, FALSE, Costs(2), f) :
            f \in ProvisionFaults
                  \cup {"load", "save", "history_load", "history_save"}}

\* the history files of earlier days
EarlierHistoryFiles ==
    (Jst(2025, 8, 6) :> SaveWorkbook(HistoryTemplateBare))
    @@ (Jst(2025, 8, 8) :> SaveWorkbook(HistoryTemplateBare))

\* the workbook a run of 7 August 2025 leaves when writing the labels of
\* the new sheet raised: August's sheet without labels
UnlabelledWorkbook ==
    LET cur == astimezone_jst(Utc(2025, 8, 6, 23))
    IN SaveWorkbook(FillDailyData(_ensure_month_sheet_exists(RunWorkbook, cur, "label"),
                                  CountStore(2), cur, Costs(2)))

InitPipeline ==
    /\ disk \in InitialFiles \cup {FileOf(UnlabelledWorkbook)}
    /\ master \in {MasterTemplate, NoFile}
    /\ wb = << >>
    /\ pc = "idle"
    /\ inp = NoInput
    /\ nruns = 0
    /\ prev = << >>
    /\ last = NoInput
    /\ htemplate \in {FileOf(HistoryTemplateWithRows), NoFile}
    /\ hist = EarlierHistoryFiles
    /\ hwb = << >>
    /\ hpc = "idle"
    /\ hinp = NoHistoryInput
    /\ hruns = 0
    /\ hlast = NoHistoryInput
    /\ PipelineIdle
    /\ probe = NoProbe
    /\ ExtraIdle

RunStoreOf(i) == RunStore(i.store, i.bad_data)

\* run, lines 69-81: a run starts and fetches its data
StartPipeline ==
    /\ rpc \in {"idle", "done", "crashed"}
    /\ nruns < MaxPipelineRuns
    /\ \E i \in RunInputs : rinp' = i
    /\ rpc' = "fetched"
    /\ generated_files' = << >>
    /\ reports' = NoReports
    /\ uploaded' = << >>
    /\ log' = << >>
    /\ UNCHANGED <<usage_vars, history_vars, probe, extra_vars>>

\* generate_daily_monitor_report, lines 388-391
UsageReport ==
    /\ rpc = "fetched"
    /\ LET r == _generate_cumulative_usage_report(disk, master, RunStoreOf(rinp),
                     rinp.end_time, rinp.mtd_costs, rinp.fault)
       IN /\ disk' = r.file
          /\ prev' = r.loaded
          /\ log' = log \o r.events
          /\ reports' = [reports EXCEPT !.usage = IF r.raised THEN "failed" ELSE "ok"]
          /\ generated_files' = IF r.raised THEN generated_files
                                ELSE Append(generated_files, usage_report_path)
          /\ rpc' = IF r.raised THEN "raised" ELSE "usage_done"
    /\ UNCHANGED <<master, wb, pc, inp, nruns, last, history_vars, rinp,
                   uploaded, probe, extra_vars>>

\* generate_daily_monitor_report, lines 393-395
HistoryReport ==
    /\ rpc = "usage_done"
    /\ LET r == _generate_daily_history_report(htemplate, hist, rinp.now,
                     RunStoreOf(rinp), rinp.fault)
       IN /\ hist' = r.files
          /\ log' = log \o r.events
          /\ reports' = [reports EXCEPT !.history = IF r.raised THEN "failed" ELSE "ok"]
          /\ generated_files' = IF r.raised THEN generated_files
                                ELSE Append(generated_files, history_path)
          /\ rpc' = IF r.raised THEN "raised" ELSE "generated"
    /\ UNCHANGED <<usage_vars, htemplate, hwb, hpc, hinp, hruns, hlast, rinp,
                   uploaded, probe, extra_vars>>

\* run, lines 112-141: the files returned go to email and upload
Deliver ==
    /\ rpc = "generated"
    /\ uploaded' = generated_files
    /\ rpc' = "done"
    /\ nruns' = nruns + 1
    /\ UNCHANGED <<disk, master, wb, pc, inp, prev, last, history_vars, rinp,
                   generated_files, reports, log, probe, extra_vars>>

\* generate_daily_monitor_report lines 397-399 and run lines 148-151: the
\* exception is raised again and the run ends with CoreAnalyticsException
RunFails ==
    /\ rpc = "raised"
    /\ rpc' = "crashed"
    /\ nruns' = nruns + 1
    /\ UNCHANGED <<disk, master, wb, pc, inp, prev, last, history_vars, rinp,
                   generated_files, reports, uploaded, log, probe, extra_vars>>

NextPipeline ==
    \/ StartPipeline
    \/ UsageReport
    \/ HistoryReport
    \/ Deliver
    \/ RunFails

SpecPipeline == InitPipeline /\ [][NextPipeline]_vars

(***************************************************************************)
(* The format-preserving write applied to one cell: the cells and values   *)
(* set_cell_value_keep_format meets (lines 213-240: metric values, the     *)
(* default 0, cost values), with the values openpyxl stores as given.      *)
(***************************************************************************)
WriteStyles ==
    {DefaultStyle} \cup {ScaffoldStyle(n) : n \in 1..4}
    \cup {[ScaffoldStyle(2) EXCEPT !.number_format = DateNumberFormat],
          [DefaultStyle EXCEPT !.protection = 1]}

WriteValues ==
    {None, IntVal(0), IntVal(1234), LabelVal(8, 7), TextVal(1),
     DateTimeVal(100), ErrorVal}

WriteCells ==
    {[value |-> v, style |-> st, hyperlink |-> h] :
        v \in {None, IntVal(7), TextVal(2), DateTimeVal(50)},
        st \in WriteStyles, h \in BOOLEAN}

InitWrite ==
    /\ disk = NoFile
    /\ UsageIdle
    /\ htemplate = FileOf(HistoryTemplateBare)
    /\ HistoryIdle
    /\ PipelineIdle
    /\ ExtraIdle
    /\ \E c \in WriteCells, v \in WriteValues :
          probe = [op |-> "ready", cell |-> c, value |-> v, out |-> c]

\* one call of set_cell_value_keep_format(cell, value)
WriteCell ==
    /\ probe.op = "ready"
    /\ probe' = [probe EXCEPT !.op = "written",
                              !.out = set_cell_value_keep_format(probe.cell, probe.value)]
    /\ UNCHANGED <<usage_vars, history_vars, pipeline_vars, extra_vars>>

NextWrite == WriteCell

SpecWrite == InitWrite /\ [][NextWrite]_vars

(***************************************************************************)
(* The sanitizer applied to one value: strings on both sides of the cell   *)
(* limit with and without illegal characters, bytes, values of other       *)
(* types, and the values passed through.                                   *)
(***************************************************************************)
SanitizeLengths == {0, 1, 5, max_len - 1, max_len, max_len + 1, 40000}

SanitizeValues ==
    {StrVal(n, c) : n \in SanitizeLengths, c \in {0, 1, 3, 40000}}
    \cup {BytesVal(n, c) : n \in SanitizeLengths, c \in {0, 2}}
    \cup {OtherVal(n) : n \in SanitizeLengths}
    \cup {None, IntVal(0), IntVal(42), FloatVal(5), DateTimeVal(3),
          TzDateTimeVal(4), DateVal(5), TimeVal(6)}

InitSanitize ==
    /\ disk = NoFile
    /\ UsageIdle
    /\ htemplate = FileOf(HistoryTemplateBare)
    /\ HistoryIdle
    /\ PipelineIdle
    /\ ExtraIdle
    /\ \E v \in SanitizeValues :
          probe = [op |-> "ready", cell |-> EmptyCell, value |-> v, out |-> None]

\* one call of _sanitize_excel_value(value)
SanitizeValue ==
    /\ probe.op = "ready"
    /\ probe' = [probe EXCEPT !.op = "sanitized",
                              !.out = _sanitize_excel_value(probe.value)]
    /\ UNCHANGED <<usage_vars, history_vars, pipeline_vars, extra_vars>>

NextSanitize == SanitizeValue

SpecSanitize == InitSanitize /\ [][NextSanitize]_vars

(***************************************************************************)
(* Concurrent runs on one usage-workbook path.  Each run is the cycle of   *)
(* _generate_cumulative_usage_report and _fill_template_with_data: it      *)
(* finds or copies the file and loads it (lines 409-418, 50), mutates the  *)
(* workbook in memory (lines 52-57) and saves it to the same path (line    *)
(* 59).  No lock is taken, so the load and the save of different runs      *)
(* interleave freely.                                                      *)
(***************************************************************************)
JobIds == 1..MaxJobs

\* runs of 31 July, 6 August and 7 August 2025 (JST)
JobInputs ==
    {[end_time |-> Utc(2025, 7, 31, 1), store |-> 1, mtd_costs |-> Costs(2)],
     [end_time |-> Utc(2025, 8, 5, 23), store |-> 3, mtd_costs |-> NoCosts],
     [end_time |-> Utc(2025, 8, 6, 23), store |-> 4, mtd_costs |-> Costs(5)],
     [end_time |-> Utc(2025, 8, 7, 23), store |-> 6, mtd_costs |-> Costs(2)]}

JobDate(j) == astimezone_jst(jobs.run[j].inp.end_time)

\* a faulty choice of file: a fresh copy of the master template every time
JobSource_template(existing, template) ==
    IF template.exists THEN template ELSE existing

\* lines 409-418: the persisted file when it exists, else the template
JobSource(existing, template) ==
    IF existing.exists THEN existing ELSE template

\* lines 52-59: what the run saves, given the workbook it loaded
JobResult(j) ==
    LET job == jobs.run[j]
        cur == JobDate(j)
    IN SaveWorkbook(FillDailyData(_ensure_month_sheet_exists(job.wb, cur, "none"),
                                  CountStore(job.inp.store), cur, job.inp.mtd_costs))

InitConcurrent ==
    /\ disk \in InitialFiles
    /\ UsageIdle
    /\ htemplate = FileOf(HistoryTemplateBare)
    /\ HistoryIdle
    /\ PipelineIdle
    /\ probe = NoProbe
    /\ ExtraIdle

\* a run starts with a target date no other run has
StartJob ==
    /\ \E j \in JobIds, i \in JobInputs :
          /\ jobs.run[j].pc = "idle"
          /\ \A q \in JobIds \ {j} :
                jobs.run[q].pc # "idle" => jobs.run[q].inp.end_time # i.end_time
          /\ jobs' = [jobs EXCEPT !.run[j].pc = "started", !.run[j].inp = i]
    /\ UNCHANGED <<usage_vars, history_vars, pipeline_vars, probe, outdir, cleanup, dl, sched>>

\* lines 409-418 and 50: the file is found or copied from the template and
\* loaded; the run notes how many saves the path has seen
LoadJob ==
    /\ \E j \in JobIds :
          /\ jobs.run[j].pc = "started"
          /\ LET source == JobSource(disk, master)
             IN IF ~source.exists
                THEN /\ jobs' = [jobs EXCEPT !.run[j].pc = "failed"]
                     /\ disk' = disk
                ELSE /\ disk' = source
                     /\ jobs' = [jobs EXCEPT !.run[j].pc = "loaded",
                                             !.run[j].wb = load_workbook(source),
                                             !.run[j].seen = jobs.saves]
    /\ UNCHANGED <<master, wb, pc, inp, nruns, prev, last, history_vars,
                   pipeline_vars, probe, outdir, cleanup, dl, sched>>

\* lines 52-59: month sheet, daily data, save over the path
SaveJob ==
    /\ \E j \in JobIds :
          /\ jobs.run[j].pc = "loaded"
          /\ disk' = FileOf(JobResult(j))
          /\ jobs' = [jobs EXCEPT !.saves = @ + 1,
                                  !.run[j].pc = "done",
                                  !.run[j].stale = (jobs.saves # jobs.run[j].seen)]
    /\ UNCHANGED <<master, wb, pc, inp, nruns, prev, last, history_vars,
                   pipeline_vars, probe, outdir, cleanup, dl, sched>>

NextConcurrent ==
    \/ StartJob
    \/ LoadJob
    \/ SaveJob

SpecConcurrent == InitConcurrent /\ [][NextConcurrent]_vars

(***************************************************************************)
(* FileCleanupService.cleanup_old_output_directories over the entries of   *)
(* the output base directory.  A name is a sequence of characters: 0..9    *)
(* for the digits, NonDigit for any other character.                       *)
(***************************************************************************)
NonDigit == 10

\* date_pattern = re.compile(r'^\d{8}$'), line 71
date_pattern_match(name) ==
    Len(name) = 8 /\ \A i \in 1..8 : name[i] \in 0..9

\* the fields datetime.strptime(directory_name, '%Y%m%d') reads
strptime(name) ==
    [year |-> 1000 * name[1] + 100 * name[2] + 10 * name[3] + name[4],
     month |-> 10 * name[5] + name[6],
     day |-> 10 * name[7] + name[8]]

\* strptime raises ValueError for a month or a day that does not exist
\* and for the year 0
strptime_ok(name) ==
    LET t == strptime(name)
    IN /\ t.year >= 1
       /\ t.month \in 1..12
       /\ t.day \in 1..monthrange(t.year, t.month)

\* the days from 1 January of year 1 to the date, as date.toordinal()
toordinal(t) ==
    LET before[k \in 0..11] ==
            IF k = 0 THEN 0 ELSE before[k - 1] + monthrange(t.year, k)
        y == t.year - 1
    IN 365 * y + (y \div 4) - (y \div 100) + (y \div 400)
       + before[t.month - 1] + t.day

\* a datetime in hours; a parsed directory date is a midnight
Hours(t) == 24 * toordinal(t) + t.hour
directory_date(name) == 24 * toordinal(strptime(name))

\* cutoff_date = datetime.now() - timedelta(days=days_threshold), line 37
cutoff_date(now, days_threshold) == Hours(now) - 24 * days_threshold

\* a faulty rule: a directory dated exactly at the cutoff is deleted too
IsOld_or_at_cutoff(name, now, days_threshold) ==
    directory_date(name) <= cutoff_date(now, days_threshold)

\* line 48: directory_date < cutoff_date
IsOld(name, now, days_threshold) ==
    directory_date(name) < cutoff_date(now, days_threshold)

\* FileRepository.list_directories (lines 73-90): the entries that are
\* directories
list_directories(dir) == {e \in dir.entries : e.is_dir}

\* _get_date_based_directories (lines 65-92)
_get_date_based_directories(dir) ==
    {e \in list_directories(dir) :
        date_pattern_match(e.name) /\ strptime_ok(e.name)}

\* FileRepository.delete_directory (lines 19-31): False when rmtree raises
delete_directory(e) == ~e.locked

\* cleanup_old_output_directories (lines 22-63): the paths returned and
\* the directory afterwards
cleanup_old_output_directories(dir, now, days_threshold) ==
    LET candidates == IF dir.exists THEN _get_date_based_directories(dir) ELSE {}
        deleted == {e \in candidates :
                      IsOld(e.name, now, days_threshold) /\ delete_directory(e)}
    IN [returned |-> {e.name : e \in deleted},
        after |-> [dir EXCEPT !.entries = @ \ deleted]]

Entry(name, is_dir, locked) == [name |-> name, is_dir |-> is_dir, locked |-> locked]

\* what the output base can hold besides the directories of standard runs:
\* the directory of the usage workbook, names that are no dates, a file
\* with a date name, a directory that cannot be removed
OtherEntries ==
    {Entry(<<NonDigit, NonDigit, NonDigit, NonDigit, NonDigit, NonDigit>>, TRUE, FALSE),
     Entry(<<NonDigit, NonDigit, NonDigit, NonDigit, 1, 2, 3, 4>>, TRUE, FALSE),
     Entry(<<2, 0, 2, 5, 0, 7, 0>>, TRUE, FALSE),
     Entry(<<2, 0, 2, 3, 0, 2, 2, 9>>, TRUE, FALSE),
     Entry(<<2, 0, 2, 4, 0, 1, 0, 1>>, FALSE, FALSE),
     Entry(<<2, 0, 2, 4, 0, 2, 2, 9>>, TRUE, TRUE)}

\* the directories made in the output base by standard runs and by hand:
\* valid dates and a month that does not exist
OutputDates ==
    {<<2, 0, 2, 4, 0, 2, 2, 9>>, <<2, 0, 2, 5, 0, 7, 0, 7>>,
     <<2, 0, 2, 5, 0, 7, 0, 8>>, <<2, 0, 2, 5, 1, 3, 0, 1>>}

CleanupTimes ==
    {[year |-> 2025, month |-> 8, day |-> 7, hour |-> 0],
     [year |-> 2025, month |-> 8, day |-> 7, hour |-> 17],
     [year |-> 2025, month |-> 8, day |-> 8, hour |-> 9]}

DaysThresholds == {30, 1}

InitCleanup ==
    /\ disk = NoFile
    /\ UsageIdle
    /\ htemplate = FileOf(HistoryTemplateBare)
    /\ HistoryIdle
    /\ PipelineIdle
    /\ probe = NoProbe
    /\ jobs = NoJobs
    /\ \E exists \in BOOLEAN, entries \in SUBSET OtherEntries :
          /\ ~exists => entries = {}
          /\ outdir = [exists |-> exists, entries |-> entries]
    /\ cleanup = NoCleanup
    /\ dl = NoDownload
    /\ sched = NoSched

\* a directory with an eight-digit name appears in the output base, as a
\* run in standard mode makes it (AppActivityMonitor.run, lines 85-87)
MakeOutputDir ==
    /\ \E name \in OutputDates :
          /\ \A e \in outdir.entries : e.name # name
          /\ outdir' = [exists |-> TRUE,
                        entries |-> outdir.entries \cup {Entry(name, TRUE, FALSE)}]
    /\ UNCHANGED <<usage_vars, history_vars, pipeline_vars, probe, jobs, cleanup, dl, sched>>

\* one call of cleanup_old_output_directories(days_threshold)
Cleanup ==
    /\ cleanup.calls < MaxCleanups
    /\ \E now \in CleanupTimes, days_threshold \in DaysThresholds :
          LET r == cleanup_old_output_directories(outdir, now, days_threshold)
          IN /\ outdir' = r.after
             /\ cleanup' = [calls |-> cleanup.calls + 1, now |-> now,
                            days_threshold |-> days_threshold,
                            before |-> outdir, after |-> r.after,
                            returned |-> r.returned]
    /\ UNCHANGED <<usage_vars, history_vars, pipeline_vars, probe, jobs, dl, sched>>

NextCleanup ==
    \/ MakeOutputDir
    \/ Cleanup

SpecCleanup == InitCleanup /\ [][NextCleanup]_vars

(***************************************************************************)
(* The TemplateProvisioner applied to one loaded workbook:                 *)
(* _ensure_month_sheet_exists(workbook, current_date) as a whole.          *)
(***************************************************************************)
\* what a run for the date t leaves of a workbook
AfterRun(workbook, t, k, mtd_costs) ==
    LET cur == astimezone_jst(t)
    IN SaveWorkbook(FillDailyData(EnsureMonthSheet(workbook, cur),
                                  CountStore(k), cur, mtd_costs))

\* a sheet somebody has edited outside the data ranges: a note in column F
\* and another look of a heading
Annotated(ws, n) ==
    [ws EXCEPT !.cells =
        (<<2, 6>> :> Styled(TextVal(50 + n), 1, FALSE))
        @@ (<<1, 1>> :> Styled(TextVal(60 + n), 4, FALSE))
        @@ @]

\* January 2025 with data on its last day, made without a source sheet
JanuarySheet == Annotated(AfterRun(<<OtherSheet>>, Utc(2025, 1, 30, 20), 2, Costs(5))[1], 1)
\* July 2025 with data on the 30th, made from the template and edited
JulySheet == Annotated(RunWorkbook[1], 2)
\* December 2025 with data on the 31st
DecemberSheet == Annotated(AfterRun(<<TemplateSheet>>, Utc(2025, 12, 30, 20), 3, Costs(2))[1], 3)

\* the workbooks a run can load: with and without the Template sheet, the
\* preceding month's sheet and sheets of other kinds, in several orders
ProvisionWorkbooks ==
    {<<TemplateSheet>>,
     RunWorkbook,
     BareWorkbook,
     <<OtherSheet>>,
     <<OtherSheet, JulySheet, TemplateSheet>>,
     <<JulySheet, OtherSheet, JanuarySheet>>,
     <<JanuarySheet, DecemberSheet, OtherSheet>>,
     <<DecemberSheet, TemplateSheet, JulySheet, OtherSheet>>}

\* target dates (UTC instants): 7 August, 31 July and 1 August 2025,
\* 1 January 2026, 28 February 2025, 29 February 2024, 30 September 2025
ProvisionDates ==
    {Utc(2025, 8, 6, 23), Utc(2025, 7, 31, 1), Utc(2025, 7, 31, 20),
     Utc(2025, 12, 31, 15), Utc(2025, 2, 28, 5), Utc(2024, 2, 29, 0),
     Utc(2025, 9, 30, 3), Utc(2026, 1, 14, 23)}

InitProvision ==
    /\ disk = NoFile
    /\ master = MasterTemplate
    /\ \E workbook \in ProvisionWorkbooks, t \in ProvisionDates :
          /\ wb = workbook
          /\ prev = workbook
          /\ inp = [end_time |-> t, store |-> 0, mtd_costs |-> NoCosts]
    /\ pc = "loaded"
    /\ nruns = 0
    /\ last = NoInput
    /\ htemplate = FileOf(HistoryTemplateBare)
    /\ HistoryIdle
    /\ PipelineIdle
    /\ probe = NoProbe
    /\ ExtraIdle

\* one call of _ensure_month_sheet_exists(workbook, current_date)
Provision ==
    /\ pc = "loaded"
    /\ wb' = _ensure_month_sheet_exists(wb, current_date, "none")
    /\ pc' = "ensured"
    /\ UNCHANGED <<disk, master, inp, nruns, prev, last>>
    /\ UNCHANGED <<history_vars, pipeline_vars, probe, extra_vars>>

NextProvision == Provision

SpecProvision == InitProvision /\ [][NextProvision]_vars

(***************************************************************************)
(* The DateRowLocator applied to one worksheet and one date.               *)
(***************************************************************************)
LocatorRows == 4

\* what column A can hold: nothing, labels of two days with and without
\* surrounding white space, a datetime
LocatorValues ==
    {None, LabelVal(8, 7), PaddedLabelVal(8, 7), LabelVal(8, 17), DateTimeVal(1)}

\* a sheet with the given values in column A from row 1 and, when asked, a
\* label in column B below them
LocatorSheet(column, below) ==
    [title |-> PeriodName(2025, 8),
     cells |->
        [p \in {<<r, 1>> : r \in {q \in 1..Len(column) : column[q] # None}} |->
            [value |-> column[p[1]], style |-> DefaultStyle, hyperlink |-> FALSE]]
        @@ [p \in (IF below THEN {<<Len(column) + 1, 2>>} ELSE {}) |->
               [value |-> LabelVal(8, 7), style |-> DefaultStyle, hyperlink |-> FALSE]]]

LocatorDates == {Jst(2025, 8, 7), Jst(2025, 8, 17), Jst(2025, 8, 1)}

InitLocate ==
    /\ disk = NoFile
    /\ UsageIdle
    /\ htemplate = FileOf(HistoryTemplateBare)
    /\ HistoryIdle
    /\ PipelineIdle
    /\ ExtraIdle
    /\ \E column \in [1..LocatorRows -> LocatorValues], below \in BOOLEAN,
          cur \in LocatorDates :
          probe = [op |-> "ready", ws |-> LocatorSheet(column, below),
                   cur |-> cur, out |-> NotFound]

\* one call of _find_date_row(worksheet, current_date)
Locate ==
    /\ probe.op = "ready"
    /\ probe' = [probe EXCEPT !.op = "located",
                              !.out = _find_date_row(probe.ws, probe.cur)]
    /\ UNCHANGED <<usage_vars, history_vars, pipeline_vars, extra_vars>>

NextLocate == Locate

SpecLocate == InitLocate /\ [][NextLocate]_vars

(***************************************************************************)
(* Vocabulary of the properties.                                           *)
(***************************************************************************)
\* a run has just completed: prev is what it loaded, disk what it saved
RunDone == pc = "idle" /\ nruns > 0

LastDate == astimezone_jst(last.end_time)
LastTarget == PeriodName(LastDate.year, LastDate.month)
LastStore == CountStore(last.store)

\* the Period sheets of a workbook
PeriodSheets(w) == {i \in 1..Len(w) : w[i].title.k = "period"}

SameValues(ws1, ws2) ==
    \A p \in (DOMAIN ws1.cells) \cup (DOMAIN ws2.cells) :
        ValueAt(ws1, p[1], p[2]) = ValueAt(ws2, p[1], p[2])

\* the target sheet as the last run saved it, and the row of the target date
SavedTarget == SheetNamed(disk.wb, LastTarget)
SavedRow == _find_date_row(SavedTarget, LastDate)
RowFilled ==
    /\ RunDone
    /\ LastTarget \in sheetnames(disk.wb)
    /\ SavedRow # NotFound

LabelColumns == {1, 7, 15, 21, 29}
MetricColumns == {2, 3, 4, 5, 8, 9, 16, 17, 18, 19, 22, 23, 24, 25, 26, 27, 30, 31}
CostColumns == <<10, 11, 12, 13>>

\* the numeric columns of a metric key
XCol(key) == column_index_from_string(column_mappings[key][1])
YCol(key) == column_index_from_string(column_mappings[key][2])

(***************************************************************************)
(* C1: when the workbook has no Period sheet for the target month, one     *)
(* update creates it, and every Period sheet that existed before keeps all *)
(* its cell values.                                                        *)
(***************************************************************************)
C1_NewSheetLeavesOthers ==
    (RunDone /\ LastTarget \notin sheetnames(prev)) =>
        /\ LastTarget \in sheetnames(disk.wb)
        /\ \A i \in PeriodSheets(prev) :
              /\ Cardinality({j \in 1..Len(disk.wb) :
                                 disk.wb[j].title = prev[i].title}) = 1
              /\ SameValues(prev[i], SheetNamed(disk.wb, prev[i].title))

\* the new sheet was cloned from the preceding month's sheet, which holds data
C1_Witness ==
    /\ RunDone
    /\ LastTarget \notin sheetnames(prev)
    /\ template_sheet_name \notin sheetnames(prev)
    /\ LET p == prev_month_last_day(LastDate)
           pn == PeriodName(p.year, p.month)
       IN /\ pn \in sheetnames(prev)
          /\ \E q \in DOMAIN SheetNamed(prev, pn).cells :
                SheetNamed(prev, pn).cells[q].value.k = "int"
          /\ pn \in sheetnames(disk.wb)
    /\ LastTarget \in sheetnames(disk.wb)

(***************************************************************************)
(* C2: ensuring the month sheet again for the same month leaves exactly    *)
(* one sheet of the target name and changes no sheet, cell or ordering.    *)
(***************************************************************************)
C2_EnsureIdempotent ==
    pc = "ensured" =>
        LET target == PeriodName(current_date.year, current_date.month)
        IN /\ Cardinality({i \in 1..Len(wb) : wb[i].title = target}) = 1
           /\ EnsureMonthSheet(wb, current_date) = wb
           /\ target \in sheetnames(prev) => wb = prev

\* the second run's invocation finds the sheet the first run created
\* (no initial workbook has a sheet for August 2025)
C2_Witness ==
    /\ pc = "ensured"
    /\ nruns = 1
    /\ current_date.year = 2025 /\ current_date.month = 8
    /\ PeriodName(2025, 8) \in sheetnames(prev)
    /\ wb = prev

(***************************************************************************)
(* C3: when the target row is found, every mapped metric whose result has  *)
(* a table whose first row has at least two values gets exactly that row's *)
(* first and second value in its two columns, however many rows follow.    *)
(***************************************************************************)
HasFirstRowPair(res) ==
    /\ res.found /\ res.has_data /\ Len(res.tables) > 0
    /\ Len(res.tables[1].rows) > 0
    /\ Len(res.tables[1].rows[1]) >= 2

C3_FirstRowSample ==
    RowFilled =>
        \A key \in DOMAIN column_mappings :
            LET res == _get_query_result(LastStore, key)
            IN HasFirstRowPair(res) =>
                /\ ValueAt(SavedTarget, SavedRow, XCol(key)) = res.tables[1].rows[1][1]
                /\ ValueAt(SavedTarget, SavedRow, YCol(key)) = res.tables[1].rows[1][2]

\* a metric whose table has further rows was written
C3_Witness ==
    /\ RowFilled
    /\ SavedRow = FirstDayRow + LastDate.day - 1
    /\ \E key \in DOMAIN column_mappings :
          LET res == _get_query_result(LastStore, key)
          IN /\ HasFirstRowPair(res)
             /\ Len(res.tables[1].rows) > 1
             /\ ValueAt(SavedTarget, SavedRow, XCol(key)) = res.tables[1].rows[1][1]

(***************************************************************************)
(* C4: when the target row is found, every mapped metric that is in none   *)
(* of the three category mappings, or whose table is empty, has 0 and 0 in *)
(* its two columns of the target row.                                      *)
(***************************************************************************)
AbsentFromStore(store, key) ==
    /\ key \notin DOMAIN store.user_count_results
    /\ key \notin DOMAIN store.stroke_count_results
    /\ key \notin DOMAIN store.unknown_results

EmptyTable(res) ==
    /\ res.found /\ res.has_data /\ Len(res.tables) > 0
    /\ Len(res.tables[1].rows) = 0

C4_MissingMetricZero ==
    RowFilled =>
        \A key \in DOMAIN column_mappings :
            (\/ AbsentFromStore(LastStore, key)
             \/ EmptyTable(_get_query_result(LastStore, key))) =>
                /\ ValueAt(SavedTarget, SavedRow, XCol(key)) = IntVal(0)
                /\ ValueAt(SavedTarget, SavedRow, YCol(key)) = IntVal(0)

\* an absent metric overwrote what an earlier run had written in that row
C4_Witness ==
    /\ RowFilled
    /\ LastTarget \in sheetnames(prev)
    /\ \E key \in DOMAIN column_mappings :
          /\ AbsentFromStore(LastStore, key)
          /\ ValueAt(SheetNamed(prev, LastTarget), SavedRow, XCol(key)) # None
          /\ ValueAt(SheetNamed(prev, LastTarget), SavedRow, XCol(key)) # IntVal(0)
          /\ ValueAt(SavedTarget, SavedRow, XCol(key)) = IntVal(0)

(***************************************************************************)
(* C5: after a new Period sheet is provisioned for a month of N days, each *)
(* label column A, G, O, U, AC holds the label of day d at row 3 + d for   *)
(* d in 1..N and no value in rows 4 + N .. 40, whatever the clone source.  *)
(***************************************************************************)
C5_LabelsOfNewSheet ==
    (pc = "ensured" /\ PeriodName(current_date.year, current_date.month)
                           \notin sheetnames(prev)) =>
        LET ws == SheetNamed(wb, PeriodName(current_date.year, current_date.month))
            N == monthrange(current_date.year, current_date.month)
        IN \A c \in LabelColumns :
              /\ \A d \in 1..N : ValueAt(ws, 3 + d, c) = LabelVal(current_date.month, d)
              /\ \A r \in (4 + N)..40 : ValueAt(ws, r, c) = None

\* a 30-day month cloned from the 31-day month before it
C5_Witness ==
    /\ pc = "ensured"
    /\ PeriodName(current_date.year, current_date.month) \notin sheetnames(prev)
    /\ template_sheet_name \notin sheetnames(prev)
    /\ monthrange(current_date.year, current_date.month) = 30
    /\ LET p == prev_month_last_day(current_date)
           pn == PeriodName(p.year, p.month)
       IN /\ pn \in sheetnames(prev)
          /\ ValueAt(SheetNamed(prev, pn), 34, 1) = LabelVal(p.month, 31)
    /\ ValueAt(wb[1], 33, 29) = LabelVal(current_date.month, 30)
    /\ ValueAt(wb[1], 34, 1) = None

(***************************************************************************)
(* C6 as claimed: for any supplied cost mapping of k >= 0 entries, the     *)
(* first min(k, 4) of the cost columns J, K, L, M of the target row hold   *)
(* the mapping's values in order, the remaining ones hold 0, and entries   *)
(* after the fourth are written nowhere.                                   *)
(***************************************************************************)
CostCellsAsMapped(items) ==
    /\ \A i \in 1..Len(CostColumns) :
          ValueAt(SavedTarget, SavedRow, CostColumns[i]) =
              IF i <= Len(items) THEN items[i][2] ELSE IntVal(0)
    /\ \A i \in (Len(CostColumns) + 1)..Len(items) :
          \A p \in DOMAIN SavedTarget.cells :
              SavedTarget.cells[p].value # items[i][2]

C6_AnySuppliedMapping ==
    (RowFilled /\ last.mtd_costs.given) =>
        CostCellsAsMapped(last.mtd_costs.items)

(***************************************************************************)
(* C6 amended: the statement holds for a mapping of k >= 1 entries; with   *)
(* an empty mapping, as with none, no cost column is written and each      *)
(* keeps what it held.                                                     *)
(***************************************************************************)
CostCellsKept ==
    \A i \in 1..Len(CostColumns) :
        ValueAt(SavedTarget, SavedRow, CostColumns[i]) =
            IF LastTarget \in sheetnames(prev)
            THEN ValueAt(SheetNamed(prev, LastTarget), SavedRow, CostColumns[i])
            ELSE None

C6_NonEmptyMapping ==
    RowFilled =>
        IF last.mtd_costs.given /\ Len(last.mtd_costs.items) >= 1
        THEN CostCellsAsMapped(last.mtd_costs.items)
        ELSE CostCellsKept

\* a mapping of five entries filled J..M, in a sheet where an earlier run's
\* mapping of two entries left two values and two zeros
C6_Witness ==
    /\ RowFilled
    /\ nruns = 2
    /\ Len(last.mtd_costs.items) = 5
    /\ ValueAt(SavedTarget, SavedRow, 13) = last.mtd_costs.items[4][2]
    /\ \E r \in FirstDayRow..LastDayRow :
          /\ r # SavedRow
          /\ ValueAt(SavedTarget, r, 10).k = "int"
          /\ ValueAt(SavedTarget, r, 10) # IntVal(0)
          /\ ValueAt(SavedTarget, r, 13) = IntVal(0)

(***************************************************************************)
(* C9: the Template sheet is a clone source only: in every workbook, in    *)
(* memory or saved, its cells (values, styles, hyperlinks) are what they   *)
(* were at the start, and no update removes it.                            *)
(***************************************************************************)
C9_TemplateUntouched ==
    /\ \A i \in 1..Len(wb) :
          wb[i].title = template_sheet_name => wb[i] = TemplateSheet
    /\ \A i \in 1..Len(disk.wb) :
          disk.wb[i].title = template_sheet_name => disk.wb[i] = TemplateSheet
    /\ (RunDone /\ template_sheet_name \in sheetnames(prev)) =>
          template_sheet_name \in sheetnames(disk.wb)

\* two month roll-overs cloned the template
C9_Witness ==
    /\ RunDone
    /\ nruns = 2
    /\ template_sheet_name \in sheetnames(prev)
    /\ LastTarget \notin sheetnames(prev)
    /\ Len(disk.wb) = 3
    /\ SheetNamed(disk.wb, template_sheet_name) = TemplateSheet
    /\ ValueAt(disk.wb[1], FirstDayRow, 1) = LabelVal(LastDate.month, 1)
    /\ ValueAt(disk.wb[2], FirstDayRow, 1).k = "label"

(***************************************************************************)
(* C10: an update against a Period sheet that already exists changes only  *)
(* cells of the target date's row in the metric and cost columns; every    *)
(* other cell of every Period sheet keeps its value.                       *)
(***************************************************************************)
C10_OnlyTargetRowChanges ==
    (RunDone /\ LastTarget \in sheetnames(prev)) =>
        LET row == _find_date_row(SheetNamed(prev, LastTarget), LastDate)
            written == MetricColumns \cup {CostColumns[i] : i \in 1..Len(CostColumns)}
        IN \A i \in PeriodSheets(prev) :
              /\ prev[i].title \in sheetnames(disk.wb)
              /\ LET before == prev[i]
                     after == SheetNamed(disk.wb, prev[i].title)
                 IN \A p \in (DOMAIN before.cells) \cup (DOMAIN after.cells) :
                       \/ /\ before.title = LastTarget
                          /\ p[1] = row
                          /\ p[2] \in written
                       \/ ValueAt(before, p[1], p[2]) = ValueAt(after, p[1], p[2])

\* the row an earlier run wrote for another date is still there
C10_Witness ==
    /\ RunDone
    /\ nruns = 2
    /\ LastTarget \in sheetnames(prev)
    /\ SavedRow # NotFound
    /\ \E r \in FirstDayRow..LastDayRow :
          /\ r # SavedRow
          /\ ValueAt(SheetNamed(prev, LastTarget), r, 2).k = "int"
          /\ ValueAt(SavedTarget, r, 2) = ValueAt(SheetNamed(prev, LastTarget), r, 2)
    /\ ValueAt(SavedTarget, SavedRow, 2).k = "int"
    /\ ValueAt(SheetNamed(prev, LastTarget), SavedRow, 2) = None

(***************************************************************************)
(* Vocabulary of the history properties.                                   *)
(***************************************************************************)
HistoryDone == hpc = "idle" /\ hruns > 0

\* the workbook the last build saved, and the template it was copied from
HistoryOut == hist[history_report_path(hlast.now)]
HistoryTemplateBook == htemplate.wb
LastHistoryResult(key) == _get_query_result(HistoryStore(hlast.store), key)

\* the rows of the table a category's result brings (none without a table)
ResultRows(res) ==
    IF res.found /\ res.has_data /\ Len(res.tables) > 0
    THEN res.tables[1].rows ELSE << >>

\* the cells a table of these rows covers
Covered(rows, p) ==
    /\ p[1] \in 2..(Len(rows) + 1)
    /\ p[2] \in 1..Len(rows[p[1] - 1])

\* the form in which a result value is stored in a cell: numbers and None
\* as they are, strings without control characters and cut to 32767
\* characters, timezone-aware datetimes as naive JST datetimes
StoredForm(v) ==
    CASE v.k = "str" -> StrVal(IF v.a > max_len THEN max_len ELSE v.a, 0)
      [] v.k = "tzdatetime" -> DateTimeVal(v.a + JstOffsetHours)
      [] OTHER -> v

(***************************************************************************)
(* C7: for a category whose sheet exists and whose result table has k      *)
(* rows, rows 2..k+1 of the sheet hold the k result rows in order from     *)
(* column 1, row 1 is unchanged, and every cell of a row >= 2 that held    *)
(* data before and is not covered by the new table is empty.               *)
(***************************************************************************)
C7_HistoryRowsReplaced ==
    HistoryDone =>
        \A key \in DOMAIN sheet_mappings :
            LET title == sheet_mappings[key]
                res == LastHistoryResult(key)
            IN (title \in sheetnames(HistoryTemplateBook)
                    /\ res.found /\ res.has_data /\ Len(res.tables) > 0) =>
                LET before == SheetNamed(HistoryTemplateBook, title)
                    after == SheetNamed(HistoryOut, title)
                    rows == res.tables[1].rows
                IN /\ \A i \in 1..Len(rows) : \A j \in 1..Len(rows[i]) :
                          ValueAt(after, i + 1, j) = StoredForm(rows[i][j])
                   /\ \A p \in (DOMAIN before.cells) \cup (DOMAIN after.cells) :
                          p[1] = 1 => CellAt(before, p[1], p[2]) = CellAt(after, p[1], p[2])
                   /\ \A p \in DOMAIN before.cells :
                          (p[1] >= 2 /\ ~Covered(rows, p)) =>
                              ValueAt(after, p[1], p[2]) = None

\* a three-row table replaced four rows of data: rows 2..4 are the table,
\* row 5 is empty
C7_Witness ==
    /\ HistoryDone
    /\ \E key \in DOMAIN sheet_mappings :
          LET title == sheet_mappings[key]
              rows == ResultRows(LastHistoryResult(key))
          IN /\ title \in sheetnames(HistoryTemplateBook)
             /\ Len(rows) = 3
             /\ ValueAt(SheetNamed(HistoryTemplateBook, title), 5, 1).k = "int"
             /\ ValueAt(SheetNamed(HistoryOut, title), 4, 1) = rows[3][1]
             /\ ValueAt(SheetNamed(HistoryOut, title), 4, 2).a = max_len
             /\ ValueAt(SheetNamed(HistoryOut, title), 5, 1) = None
             /\ ValueAt(SheetNamed(HistoryOut, title), 1, 1).k = "text"

(***************************************************************************)
(* C8 as claimed: in every history build each category sheet that exists   *)
(* in the copied workbook has all its data rows (values and hyperlinks)    *)
(* cleared, so no such sheet holds a data cell this run did not write.     *)
(***************************************************************************)
OnlyThisRunsData(ws, rows) ==
    \A p \in DOMAIN ws.cells :
        p[1] >= 2 =>
            \/ Covered(rows, p)
            \/ ws.cells[p].value = None /\ ~ws.cells[p].hyperlink

C8_EveryExistingSheetCleared ==
    HistoryDone =>
        \A key \in DOMAIN sheet_mappings :
            sheet_mappings[key] \in sheetnames(HistoryTemplateBook) =>
                OnlyThisRunsData(SheetNamed(HistoryOut, sheet_mappings[key]),
                                 ResultRows(LastHistoryResult(key)))

(***************************************************************************)
(* C8 amended: the data rows of an existing category sheet are cleared     *)
(* (values and hyperlinks) when the category's result brings a table, and  *)
(* such a sheet then holds no data cell this run did not write; the sheet  *)
(* of a category without a result or without a table is left as the        *)
(* template has it.                                                        *)
(***************************************************************************)
C8_SheetsWithTableCleared ==
    HistoryDone =>
        \A key \in DOMAIN sheet_mappings :
            LET title == sheet_mappings[key]
                res == LastHistoryResult(key)
            IN title \in sheetnames(HistoryTemplateBook) =>
                IF res.found /\ res.has_data /\ Len(res.tables) > 0
                THEN OnlyThisRunsData(SheetNamed(HistoryOut, title), res.tables[1].rows)
                ELSE SheetNamed(HistoryOut, title) = SheetNamed(HistoryTemplateBook, title)

\* a one-row table replaced data rows and a hyperlink, while the sheet of a
\* category without result kept the template's data rows
C8_Witness ==
    /\ HistoryDone
    /\ \E key \in DOMAIN sheet_mappings :
          LET title == sheet_mappings[key]
          IN /\ title \in sheetnames(HistoryTemplateBook)
             /\ Len(ResultRows(LastHistoryResult(key))) = 1
             /\ CellAt(SheetNamed(HistoryTemplateBook, title), 3, 2).hyperlink
             /\ ~CellAt(SheetNamed(HistoryOut, title), 3, 2).hyperlink
             /\ ValueAt(SheetNamed(HistoryOut, title), 3, 2) = None
    /\ \E key \in DOMAIN sheet_mappings :
          LET title == sheet_mappings[key]
          IN /\ title \in sheetnames(HistoryTemplateBook)
             /\ ~LastHistoryResult(key).found
             /\ ValueAt(SheetNamed(HistoryOut, title), 3, 2).k = "int"

(***************************************************************************)
(* C11: a write through the format-preserving write leaves the cell's      *)
(* number format, border, fill, font, alignment and protection as they     *)
(* were before the call, and the cell's value is the written value.        *)
(***************************************************************************)
C11_WriteKeepsStyle ==
    probe.op = "written" =>
        /\ probe.out.style.number_format = probe.cell.style.number_format
        /\ probe.out.style.border = probe.cell.style.border
        /\ probe.out.style.fill = probe.cell.style.fill
        /\ probe.out.style.font = probe.cell.style.font
        /\ probe.out.style.alignment = probe.cell.style.alignment
        /\ probe.out.style.protection = probe.cell.style.protection
        /\ probe.out.value = probe.value

\* a datetime written over a number in a scaffold cell whose number format
\* is not a date format: the assignment alone would have switched it
C11_Witness ==
    /\ probe.op = "written"
    /\ probe.value.k = "datetime"
    /\ probe.cell.value.k = "int"
    /\ probe.cell.style = ScaffoldStyle(3)
    /\ AssignValue(probe.cell, probe.value).style # probe.cell.style
    /\ probe.out.value = probe.value
    /\ probe.out.style = ScaffoldStyle(3)

(***************************************************************************)
(* C13 as claimed: the sanitizer maps a string to the string without its   *)
(* illegal characters, then cut to 32767 characters; returns None,         *)
(* numbers, dates, datetimes and times unchanged; maps every other value   *)
(* to the sanitized form of its string representation; and sanitizing      *)
(* twice equals sanitizing once.                                           *)
(***************************************************************************)
IsPassedThrough(v) ==
    v.k \in {"none", "int", "float", "date", "datetime", "tzdatetime", "time"}

\* the string without its illegal characters, cut to max_len characters
Sanitized(v) == StrVal(IF v.a > max_len THEN max_len ELSE v.a, 0)

SanitizerOn(v, out, repr(_)) ==
    /\ v.k = "str" => out = Sanitized(v)
    /\ IsPassedThrough(v) => out = v
    /\ (v.k # "str" /\ ~IsPassedThrough(v)) => out = Sanitized(repr(v))
    /\ _sanitize_excel_value(out) = out

C13_OtherValuesByStr ==
    probe.op = "sanitized" =>
        SanitizerOn(probe.value, probe.out, str_of)

(***************************************************************************)
(* C13 amended: as claimed, except that a bytes value is mapped to the     *)
(* sanitized form of its UTF-8 decoding, not of its string representation. *)
(***************************************************************************)
DecodedOrStr(v) == IF v.k = "bytes" THEN decode(v) ELSE str_of(v)

C13_BytesDecoded ==
    probe.op = "sanitized" =>
        SanitizerOn(probe.value, probe.out, DecodedOrStr)

\* a string of 40000 legal and 3 illegal characters came out as 32767 legal
\* characters
C13_Witness ==
    /\ probe.op = "sanitized"
    /\ probe.value = StrVal(40000, 3)
    /\ probe.out = StrVal(max_len, 0)

(***************************************************************************)
(* C12: every cell write of the engine captures the six style attributes,  *)
(* assigns and reapplies them, so that no write changes the number format, *)
(* border, fill, font, alignment or protection of the cell it writes:      *)
(* every cell of a sheet a run has written has the style it had in the     *)
(* workbook the run opened.                                                *)
(***************************************************************************)
StylesKept(before, after) ==
    \A t \in sheetnames(before) \cap sheetnames(after) :
        \A p \in DOMAIN SheetNamed(after, t).cells :
            CellAt(SheetNamed(after, t), p[1], p[2]).style
                = CellAt(SheetNamed(before, t), p[1], p[2]).style

C12_EveryWriteKeepsStyle ==
    /\ RunDone => StylesKept(prev, disk.wb)
    /\ HistoryDone => StylesKept(HistoryTemplateBook, HistoryOut)

(***************************************************************************)
(* Vocabulary of the pipeline properties.                                  *)
(***************************************************************************)
\* the usage report of the current run has been attempted
UsageAttempted == reports.usage # "not_attempted"
\* the run has ended, delivered or crashed
RunEnded == rpc \in {"done", "crashed"}

RunDate == astimezone_jst(rinp.end_time)
RunTarget == PeriodName(RunDate.year, RunDate.month)
RunSheet == SheetNamed(disk.wb, RunTarget)
RunRow == _find_date_row(RunSheet, RunDate)
RunRowFilled ==
    /\ reports.usage = "ok"
    /\ RunTarget \in sheetnames(disk.wb)
    /\ RunRow # NotFound

\* the metric keys whose result makes the extraction or the write raise
FailingMetrics == (DOMAIN FaultyResults) \cap (DOMAIN column_mappings)

(***************************************************************************)
(* C14: in a run some of whose metric results make the extraction or the   *)
(* write raise, the usage report still succeeds; at the target row each    *)
(* failing metric has "ERROR" in both its columns and every other metric   *)
(* has the two values the same run without the failing results writes.     *)
(***************************************************************************)
C14_MetricFailureIsolated ==
    (UsageAttempted /\ rinp.bad_data /\ rinp.fault = "none" /\ disk.exists) =>
        /\ reports.usage = "ok"
        /\ RunRowFilled =>
              \A key \in DOMAIN column_mappings :
                 LET sound == MetricSample(
                                 _get_query_result(RunStore(rinp.store, FALSE), key))
                 IN /\ ValueAt(RunSheet, RunRow, XCol(key)) =
                          IF key \in FailingMetrics THEN ErrorVal ELSE sound[1]
                    /\ ValueAt(RunSheet, RunRow, YCol(key)) =
                          IF key \in FailingMetrics THEN ErrorVal ELSE sound[2]

\* a run with failing metrics filled its row: a partial result and a value
\* that cannot be stored gave "ERROR", another metric has its sample
C14_Witness ==
    /\ rinp.bad_data
    /\ RunRowFilled
    /\ ValueAt(RunSheet, RunRow, XCol("daily_alm_chat_count")) = ErrorVal
    /\ ValueAt(RunSheet, RunRow, YCol("daily_brain_count")) = ErrorVal
    /\ \E key \in (DOMAIN column_mappings) \ FailingMetrics :
          /\ ValueAt(RunSheet, RunRow, XCol(key)).k = "int"
          /\ ValueAt(RunSheet, RunRow, XCol(key)) # IntVal(0)

(***************************************************************************)
(* C15: in a run whose cumulative usage report failed (no workbook and no  *)
(* template to instantiate, or the workbook could not be opened or saved), *)
(* the history report of the same run has been attempted by the time the   *)
(* run ends.                                                               *)
(***************************************************************************)
C15_HistoryAttemptedAfterUsageFailure ==
    (RunEnded /\ reports.usage = "failed") =>
        reports.history # "not_attempted"

(***************************************************************************)
(* C16: in a run whose usage report succeeded and whose history report     *)
(* failed as a whole (template missing, open or save failure), the run     *)
(* ends without crashing and the usage workbook's path is in the file list *)
(* handed to upload and delivery.                                          *)
(***************************************************************************)
C16_UsagePathSurvivesHistoryFailure ==
    (RunEnded /\ reports.usage = "ok" /\ reports.history = "failed") =>
        /\ rpc = "done"
        /\ \E n \in 1..Len(uploaded) : uploaded[n] = usage_report_path

(***************************************************************************)
(* C17: in a history report that was saved, the nine categories were each  *)
(* attempted once in the fixed order, whichever of them raised; the sheets *)
(* of the categories that did not raise hold their rows; the save happened *)
(* exactly once and after the ninth category.  Failing categories alone    *)
(* never make the history report fail.                                     *)
(***************************************************************************)
IsCategoryEvent(ev) == ev.e \in {"no_sheet", "raised", "filled", "no_data"}
IsSaveHistoryEvent(ev) == ev.e = "save_history"
CategoryEvents == SelectSeq(log, IsCategoryEvent)
RunHistoryOut == hist[history_report_path(rinp.now)]

C17_AllCategoriesThenOneSave ==
    /\ (reports.history = "failed" /\ rinp.fault = "none") => ~htemplate.exists
    /\ reports.history = "ok" =>
          /\ Len(CategoryEvents) = Len(history_keys)
          /\ \A n \in 1..Len(CategoryEvents) : CategoryEvents[n].k = n
          /\ Len(SelectSeq(log, IsSaveHistoryEvent)) = 1
          /\ IsSaveHistoryEvent(log[Len(log)])
          /\ \A key \in DOMAIN sheet_mappings :
                LET res == _get_query_result(RunStoreOf(rinp), key)
                    rows == ResultRows(res)
                IN (sheet_mappings[key] \in sheetnames(RunHistoryOut)
                        /\ ~res.partial
                        /\ Len(res.tables) > 0 /\ WellFormed(res.tables[1])) =>
                      \A i \in 1..Len(rows) : \A j \in 1..Len(rows[i]) :
                          ValueAt(SheetNamed(RunHistoryOut, sheet_mappings[key]),
                                  i + 1, j) = StoredForm(rows[i][j])

\* a saved history report in which a category raised and a later category
\* was filled with its rows
C17_Witness ==
    /\ reports.history = "ok"
    /\ \E n, m \in 1..Len(CategoryEvents) :
          /\ n < m
          /\ CategoryEvents[n].e = "raised"
          /\ CategoryEvents[m].e = "filled"
          /\ ValueAt(SheetNamed(RunHistoryOut, sheet_mappings[history_keys[m]]),
                     HistoryFirstDataRow, 1).k = "int"

(***************************************************************************)
(* C18: in a run whose provisioning of the Period sheet raises (while      *)
(* copying the source sheet, clearing the ranges or writing the labels),   *)
(* the usage report still succeeds: after the failed provisioning the fill *)
(* step runs and then the save, and the workbook on disk is the loaded one *)
(* as provisioning left it, filled and saved.                              *)
(***************************************************************************)
UsageEvents == SubSeq(log, 1, 4)

C18_ProvisioningFailureNonFatal ==
    (UsageAttempted /\ rinp.fault \in ProvisionFaults /\ prev # << >>) =>
        /\ reports.usage = "ok"
        /\ Len(log) >= 4
        /\ UsageEvents[1].e = "load"
        /\ UsageEvents[2].e \in {"ensure", "ensure_raised"}
        /\ UsageEvents[2].e = "ensure_raised" <=>
              ~MonthSheetExists(prev, RunTarget)
        /\ UsageEvents[3].e = "fill"
        /\ UsageEvents[4].e = "save_usage"
        /\ disk.wb = SaveWorkbook(
                         FillDailyData(
                             _ensure_month_sheet_exists(prev, RunDate, rinp.fault),
                             RunStoreOf(rinp), RunDate, rinp.mtd_costs))

\* provisioning raised after the new sheet was titled and moved to the
\* front: the workbook was saved with that sheet in it
C18_Witness ==
    /\ reports.usage = "ok"
    /\ rinp.fault = "clear"
    /\ Len(log) >= 4
    /\ UsageEvents[2].e = "ensure_raised"
    /\ UsageEvents[4].e = "save_usage"
    /\ RunTarget \notin sheetnames(prev)
    /\ RunTarget \in sheetnames(disk.wb)

(***************************************************************************)
(* C19: when the usage workbook was opened and, after provisioning, the    *)
(* Period sheet exists but no row of its column A carries the target       *)
(* date's label, the usage report succeeds, the workbook is saved, the     *)
(* usage path is in the list of generated files, and every metric and cost *)
(* cell of the Period sheet has the value it had after provisioning.       *)
(***************************************************************************)
HasLabelRow(ws, d) ==
    \E p \in DOMAIN ws.cells :
        /\ p[2] = 1
        /\ Truthy(ws.cells[p].value)
        /\ StripEquals(ws.cells[p].value, d.month, d.day)

Provisioned == _ensure_month_sheet_exists(prev, RunDate, rinp.fault)

RowMissing ==
    /\ UsageAttempted
    /\ prev # << >>
    /\ rinp.fault \notin {"load", "save"}
    /\ RunTarget \in sheetnames(Provisioned)
    /\ ~HasLabelRow(SheetNamed(Provisioned, RunTarget), RunDate)

C19_NoRowNoWrite ==
    RowMissing =>
        /\ reports.usage = "ok"
        /\ \E n \in 1..Len(log) : log[n].e = "save_usage"
        /\ \E n \in 1..Len(generated_files) : generated_files[n] = usage_report_path
        /\ disk.exists /\ RunTarget \in sheetnames(disk.wb)
        /\ \A r \in 1..LastDayRow + 1 :
              \A c \in MetricColumns \cup {CostColumns[i] : i \in 1..Len(CostColumns)} :
                  ValueAt(RunSheet, r, c) = ValueAt(SheetNamed(Provisioned, RunTarget), r, c)

\* a run with data and costs found August's sheet already there without
\* labels: the first day row is still empty in the saved workbook
C19_Witness ==
    /\ RowMissing
    /\ rinp.fault = "none"
    /\ RunTarget \in sheetnames(prev)
    /\ CostsSupplied(rinp.mtd_costs)
    /\ reports.usage = "ok"
    /\ ValueAt(RunSheet, FirstDayRow, 2) = None

(***************************************************************************)
(* C20: the history step of a run changes no history file but the one     *)
(* named by the run's target date, the JST date of end_time whose row the  *)
(* usage update fills, and a history report that succeeded has written     *)
(* that file.                                                              *)
(***************************************************************************)
TargetDatePath == history_report_path(RunDate)

C20_HistoryFileOfTargetDate ==
    [][(rpc = "usage_done" /\ rpc' # "usage_done") =>
          /\ \A d \in DOMAIN hist' :
                d # TargetDatePath => (d \in DOMAIN hist /\ hist'[d] = hist[d])
          /\ reports'.history = "ok" =>
                /\ TargetDatePath \in DOMAIN hist'
                /\ log'[Len(log')] = Event("save_history", 0, TargetDatePath)]_vars

(***************************************************************************)
(* C21: the usage report of a run loads the workbook persisted at the      *)
(* canonical path when there is one; otherwise it copies the master        *)
(* template to that path and loads the copy; with neither it fails and the *)
(* canonical path still holds no file.                                     *)
(***************************************************************************)
C21_PersistedElseTemplateElseFail ==
    [][(rpc = "fetched" /\ rpc' # "fetched") =>
          /\ (disk.exists /\ rinp.fault # "load") => prev' = disk.wb
          /\ (~disk.exists /\ master.exists) =>
                /\ disk'.exists
                /\ rinp.fault # "load" => prev' = master.wb
          /\ (~disk.exists /\ ~master.exists) =>
                /\ reports'.usage = "failed"
                /\ ~disk'.exists]_vars

\* a run found neither a persisted workbook nor the master template: its
\* usage report failed and there is no file at the canonical path
C21_Witness ==
    /\ rpc = "raised"
    /\ reports.usage = "failed"
    /\ ~master.exists
    /\ ~disk.exists
    /\ prev = << >>

(***************************************************************************)
(* C22: among runs for different target dates that share the path of the   *)
(* usage workbook, an update is lost only when load / save cycles          *)
(* overlapped: as long as every run that has saved did so with no other    *)
(* save between its load and its save, the persisted workbook holds the    *)
(* row of every run that has saved.  With overlap a row can be missing.    *)
(***************************************************************************)
JobSaved(j) == jobs.run[j].pc = "done"

\* the persisted workbook holds the row of run j with its metric values
JobRowPresent(j) ==
    LET cur == JobDate(j)
        title == PeriodName(cur.year, cur.month)
    IN /\ title \in sheetnames(disk.wb)
       /\ LET ws == SheetNamed(disk.wb, title)
              row == FirstDayRow + cur.day - 1
          IN /\ ValueAt(ws, row, 1) = LabelVal(cur.month, cur.day)
             /\ \A key \in DOMAIN column_mappings :
                   LET sample == MetricSample(
                                    _get_query_result(CountStore(jobs.run[j].inp.store), key))
                   IN /\ ValueAt(ws, row, XCol(key)) = sample[1]
                      /\ ValueAt(ws, row, YCol(key)) = sample[2]

C22_SequentialRunsLoseNothing ==
    (\A j \in JobIds : JobSaved(j) => ~jobs.run[j].stale) =>
        \A j \in JobIds : JobSaved(j) => JobRowPresent(j)

\* two runs loaded the same workbook before either saved: both have saved
\* and the row of one of them is not in the persisted workbook
C22_Witness ==
    /\ \A j \in JobIds : JobSaved(j)
    /\ \E j \in JobIds : jobs.run[j].stale
    /\ \E j \in JobIds : ~JobRowPresent(j)
    /\ \E j \in JobIds : JobRowPresent(j)

(***************************************************************************)
(* C23: a call of cleanup_old_output_directories removes only entries of   *)
(* the output base that are directories named by eight digits forming a    *)
(* valid date whose midnight is strictly earlier than now minus            *)
(* days_threshold days; it returns exactly the paths it removed; no entry  *)
(* whose name is not such a date is removed.                               *)
(***************************************************************************)
CleanupCalled == cleanup.calls > 0
Removed == cleanup.before.entries \ cleanup.after.entries

\* the name is YYYYMMDD of a calendar date
IsDateName(name) ==
    /\ Len(name) = 8
    /\ \A i \in 1..8 : name[i] # NonDigit
    /\ LET t == strptime(name)
       IN /\ t.year >= 1 /\ t.year <= 9999
          /\ t.month >= 1 /\ t.month <= 12
          /\ t.day >= 1 /\ t.day <= monthrange(t.year, t.month)

C23_OnlyOldDateDirectories ==
    CleanupCalled =>
        /\ \A e \in Removed :
              /\ e.is_dir
              /\ IsDateName(e.name)
              /\ directory_date(e.name) + 24 * cleanup.days_threshold
                    < Hours(cleanup.now)
        /\ cleanup.returned = {e.name : e \in Removed}
        /\ cleanup.after.entries \subseteq cleanup.before.entries
        /\ \A e \in cleanup.before.entries :
              ~IsDateName(e.name) => e \in cleanup.after.entries

\* a cleanup at midnight removed the directory of 7 July and kept the one
\* of 8 July, dated exactly at the cutoff, the directory of the usage
\* workbook and a directory that could not be removed
C23_Witness ==
    /\ CleanupCalled
    /\ cleanup.days_threshold = 30
    /\ cleanup.now.hour = 0
    /\ cleanup.returned = {<<2, 0, 2, 5, 0, 7, 0, 7>>}
    /\ Entry(<<2, 0, 2, 5, 0, 7, 0, 8>>, TRUE, FALSE) \in cleanup.after.entries
    /\ Entry(<<2, 0, 2, 4, 0, 2, 2, 9>>, TRUE, TRUE) \in cleanup.after.entries
    /\ \E e \in cleanup.after.entries : \A i \in 1..Len(e.name) : e.name[i] = NonDigit

(***************************************************************************)
(* Vocabulary of the provisioning properties.                              *)
(***************************************************************************)
\* provisioning has run and had to create the Period sheet
Provisioned24 ==
    /\ pc = "ensured"
    /\ PeriodName(current_date.year, current_date.month) \notin sheetnames(prev)

\* the Period sheet's name of the calendar month before the target month
PrecedingMonthName ==
    IF current_date.month = 1
    THEN PeriodName(current_date.year - 1, 12)
    ELSE PeriodName(current_date.year, current_date.month - 1)

BlankSheet == [title |-> NewSheetName, cells |-> EmptyCells]

\* the sheet is a clone of the source outside the data ranges and has the
\* source's styles inside them
ClonedFrom(ws, source) ==
    \A p \in (DOMAIN ws.cells) \cup (DOMAIN source.cells) :
        /\ CellAt(ws, p[1], p[2]).style = CellAt(source, p[1], p[2]).style
        /\ p \notin ClearRegion =>
              CellAt(ws, p[1], p[2]) = CellAt(source, p[1], p[2])

(***************************************************************************)
(* C24: a newly created Period sheet is a clone of the Template sheet when *)
(* the workbook has one; otherwise of the Period sheet of the preceding    *)
(* calendar month (December of the year before for January) when the       *)
(* workbook has that; otherwise it is a blank sheet.                       *)
(***************************************************************************)
C24_CloneSourcePreference ==
    Provisioned24 =>
        LET new_sheet == SheetNamed(wb, PeriodName(current_date.year, current_date.month))
        IN IF template_sheet_name \in sheetnames(prev)
           THEN ClonedFrom(new_sheet, SheetNamed(prev, template_sheet_name))
           ELSE IF PrecedingMonthName \in sheetnames(prev)
                THEN ClonedFrom(new_sheet, SheetNamed(prev, PrecedingMonthName))
                ELSE ClonedFrom(new_sheet, BlankSheet)

\* January 2026 was made in a workbook without Template sheet that holds
\* December 2025: the new sheet has December's note and heading; and the
\* Template and the preceding month's sheet differ where both are present
C24_Witness ==
    /\ Provisioned24
    /\ current_date.month = 1
    /\ template_sheet_name \notin sheetnames(prev)
    /\ PrecedingMonthName = PeriodName(2025, 12)
    /\ PrecedingMonthName \in sheetnames(prev)
    /\ LET new_sheet == SheetNamed(wb, PeriodName(2026, 1))
       IN /\ ValueAt(new_sheet, 2, 6) = TextVal(53)
          /\ ~ClonedFrom(new_sheet, BlankSheet)
          /\ ~ClonedFrom(new_sheet, TemplateSheet)

(***************************************************************************)
(* C25: after a new Period sheet was provisioned it is the first sheet of  *)
(* the workbook and the sheets that existed before follow it in the order  *)
(* they had.                                                               *)
(***************************************************************************)
C25_NewSheetFirstOthersInOrder ==
    Provisioned24 =>
        /\ Len(wb) = Len(prev) + 1
        /\ wb[1].title = PeriodName(current_date.year, current_date.month)
        /\ \A i \in 1..Len(prev) : wb[i + 1].title = prev[i].title

\* a workbook of four sheets got its new sheet in front of them
C25_Witness ==
    /\ Provisioned24
    /\ Len(prev) = 4
    /\ wb[1].title = PeriodName(2025, 8)
    /\ wb[2].title = PeriodName(2025, 12)
    /\ wb[3].title = template_sheet_name
    /\ wb[5].title = OtherName(1)

(***************************************************************************)
(* C26: the locator returns the smallest row of 1..max_row whose column A  *)
(* value, as a string without surrounding white space, is the label        *)
(* "<month>月<day>日" of the date, and not-found when there is no such row.   *)
(***************************************************************************)
\* the cell's string is the label, with or without surrounding white space
HoldsLabel(ws, r, cur) ==
    \/ ValueAt(ws, r, 1) = LabelVal(cur.month, cur.day)
    \/ ValueAt(ws, r, 1) = PaddedLabelVal(cur.month, cur.day)

C26_SmallestMatchingRow ==
    probe.op = "located" =>
        LET hits == {r \in 1..max_row(probe.ws) : HoldsLabel(probe.ws, r, probe.cur)}
        IN IF hits = {}
           THEN probe.out = NotFound
           ELSE /\ probe.out \in hits
                /\ \A q \in hits : probe.out <= q

\* column A holds another day's label, then the padded label of the date,
\* then its plain label: the row of the padded one is returned
C26_Witness ==
    /\ probe.op = "located"
    /\ probe.cur = Jst(2025, 8, 7)
    /\ ValueAt(probe.ws, 1, 1) = LabelVal(8, 17)
    /\ ValueAt(probe.ws, 2, 1) = PaddedLabelVal(8, 7)
    /\ ValueAt(probe.ws, 3, 1) = LabelVal(8, 7)
    /\ probe.out = 2

(***************************************************************************)
(* C27: the columns of the nine metric pairs, the four cost columns and    *)
(* the five label columns all lie in the five cleared ranges; so a Period  *)
(* sheet just made from the preceding month's sheet holds in rows 4..40 no *)
(* value in a metric or cost column and, in a label column, nothing but    *)
(* the labels of its own month.                                            *)
(***************************************************************************)
WrittenColumns ==
    {XCol(key) : key \in DOMAIN column_mappings}
    \cup {YCol(key) : key \in DOMAIN column_mappings}
    \cup {column_index_from_string(cost_cols[i]) : i \in 1..Len(cost_cols)}

LabelColumnSet == {column_index_from_string(label_cols[i]) : i \in 1..Len(label_cols)}

InSomeRange(c) ==
    \E i \in 1..Len(ranges) :
        /\ column_index_from_string(ranges[i][1]) <= c
        /\ c <= column_index_from_string(ranges[i][2])

ClonedFromPrecedingMonth ==
    /\ Provisioned24
    /\ template_sheet_name \notin sheetnames(prev)
    /\ PrecedingMonthName \in sheetnames(prev)

C27_NothingInherited ==
    /\ \A c \in WrittenColumns \cup LabelColumnSet : InSomeRange(c)
    /\ ClonedFromPrecedingMonth =>
          LET new_sheet == SheetNamed(wb, PeriodName(current_date.year, current_date.month))
          IN \A r \in FirstDayRow..LastDayRow :
                /\ \A c \in WrittenColumns : ValueAt(new_sheet, r, c) = None
                /\ \A c \in LabelColumnSet :
                      \/ ValueAt(new_sheet, r, c) = None
                      \/ ValueAt(new_sheet, r, c)
                            = LabelVal(current_date.month, r - FirstDayRow + 1)

\* February 2025 was made from January's sheet, which has a label, metric
\* values and costs in the row of the 31st: that row is empty in February
C27_Witness ==
    /\ ClonedFromPrecedingMonth
    /\ current_date.month = 2
    /\ LET source == SheetNamed(prev, PrecedingMonthName)
           new_sheet == SheetNamed(wb, PeriodName(current_date.year, current_date.month))
       IN /\ ValueAt(source, 34, 1) = LabelVal(1, 31)
          /\ ValueAt(source, 34, 2) # None
          /\ ValueAt(source, 34, 10) # None
          /\ ValueAt(new_sheet, 34, 1) = None
          /\ ValueAt(new_sheet, 34, 2) = None
          /\ ValueAt(new_sheet, 34, 10) = None
          /\ ValueAt(new_sheet, 31, 1) = LabelVal(2, 28)

(***************************************************************************)
(* C28: a run whose store, target date and cost mapping are those of the   *)
(* run completed just before it saves the usage workbook exactly as that   *)
(* run left it: the same sheets in the same order with the same cells.     *)
(***************************************************************************)
SameInputsAsLastRun ==
    /\ nruns >= 1
    /\ astimezone_jst(inp.end_time) = astimezone_jst(last.end_time)
    /\ inp.store = last.store
    /\ inp.mtd_costs = last.mtd_costs

C28_SecondRunChangesNothing ==
    [][SaveStep /\ SameInputsAsLastRun => disk' = disk]_vars

\* the second of two runs for 7 August with five costs has filled its row
\* again, in a workbook that is the one the first run saved
C28_Witness ==
    /\ pc = "filled"
    /\ nruns = 1
    /\ SameInputsAsLastRun
    /\ inp.store = 3
    /\ FileOf(SaveWorkbook(wb)) = disk
    /\ LET ws == SheetNamed(wb, PeriodName(current_date.year, current_date.month))
           row == _find_date_row(ws, current_date)
       IN /\ row # NotFound
          /\ \E key \in DOMAIN column_mappings : ValueAt(ws, row, XCol(key)) # None
          /\ ValueAt(ws, row, 10) # None

(***************************************************************************)
(* The download step before a run: AppActivityMonitor.                     *)
(* _download_existing_usage_report (lines 153-185) over                    *)
(* AzureBlobRepository.download_file and upload_file.  disk is the local   *)
(* file at the canonical path, dl.blob the blob of the same name, master   *)
(* the template file that seeds the blob.                                  *)
(***************************************************************************)
\* a file that exists and holds no workbook: zero bytes, or bytes that are
\* not a workbook
EmptyFile == [exists |-> TRUE, wb |-> << >>]

\* openpyxl.load_workbook(path) returns rather than raises
IsLoadable(file) == file.exists /\ file.wb # << >>

\* download_file (lines 86-102): get_blob_client can raise before the local
\* file is touched; open(local_file_path, "wb") then creates or truncates
\* it; download_blob and readall raise when the blob is missing or the
\* transfer fails, before anything is written
download_file(blob, local, fault) ==
    IF fault = "client" THEN [raised |-> TRUE, local |-> local]
    ELSE IF ~blob.exists \/ fault = "stream"
    THEN [raised |-> TRUE, local |-> EmptyFile]
    ELSE [raised |-> FALSE, local |-> blob]

\* upload_file (lines 66-84): upload_blob(data, overwrite=True)
upload_file(local, blob, fault) ==
    IF ~local.exists \/ fault = "upload"
    THEN [raised |-> TRUE, blob |-> blob]
    ELSE [raised |-> FALSE, blob |-> local]

DownloadFaults == {"none", "client", "stream"}
UploadFaults == {"none", "upload"}
Blobs == {NoFile, FileOf(RunWorkbook), EmptyFile}

InitDownload ==
    /\ disk \in InitialFiles
    /\ master \in {MasterTemplate, NoFile}
    /\ wb = << >>
    /\ pc = "idle"
    /\ inp = NoInput
    /\ nruns = 0
    /\ prev = << >>
    /\ last = NoInput
    /\ htemplate = FileOf(HistoryTemplateBare)
    /\ HistoryIdle
    /\ PipelineIdle
    /\ probe = NoProbe
    /\ jobs = NoJobs
    /\ outdir = EmptyOutdir
    /\ cleanup = NoCleanup
    /\ \E blob \in Blobs : dl = [NoDownload EXCEPT !.blob = blob]
    /\ sched = NoSched

\* lines 155-163: the step starts, or returns at once under
\* SKIP_USAGE_DOWNLOAD
StartDownload ==
    /\ dl.pc = "idle"
    /\ \E skip \in BOOLEAN, first \in DownloadFaults, upload \in UploadFaults,
          second \in DownloadFaults :
          dl' = [dl EXCEPT !.pc = IF skip THEN "returned" ELSE "first",
                           !.skip = skip,
                           !.fault = [first |-> first, upload |-> upload,
                                      second |-> second],
                           !.before = disk,
                           !.outcome = IF skip THEN "skipped" ELSE "none"]
    /\ UNCHANGED <<usage_vars, history_vars, pipeline_vars, probe, jobs,
                   outdir, cleanup, sched>>

\* lines 165-170: the first download and the trial load
FirstDownload ==
    /\ dl.pc = "first"
    /\ LET r == download_file(dl.blob, disk, dl.fault.first)
           ok == ~r.raised /\ IsLoadable(r.local)
       IN /\ disk' = r.local
          /\ dl' = [dl EXCEPT !.pc = IF ok THEN "returned" ELSE "seed",
                              !.outcome = IF ok THEN "downloaded" ELSE "none"]
    /\ UNCHANGED <<master, wb, pc, inp, nruns, prev, last>>
    /\ UNCHANGED <<history_vars, pipeline_vars, probe, jobs, outdir, cleanup,
                   sched>>

\* lines 172-178: the template seeds the blob; a missing template or a
\* failed upload goes to the outer handler, which logs and returns
SeedBlob ==
    /\ dl.pc = "seed"
    /\ LET r == upload_file(master, dl.blob, dl.fault.upload)
       IN dl' = [dl EXCEPT !.pc = IF r.raised THEN "returned" ELSE "second",
                           !.blob = r.blob,
                           !.outcome = IF r.raised THEN "error" ELSE "none"]
    /\ UNCHANGED <<usage_vars, history_vars, pipeline_vars, probe, jobs,
                   outdir, cleanup, sched>>

\* lines 180-185: the second download and the trial load; whatever is
\* raised is logged and the step returns
SecondDownload ==
    /\ dl.pc = "second"
    /\ LET r == download_file(dl.blob, disk, dl.fault.second)
           ok == ~r.raised /\ IsLoadable(r.local)
       IN /\ disk' = r.local
          /\ dl' = [dl EXCEPT !.pc = "returned",
                              !.outcome = IF ok THEN "seeded" ELSE "error"]
    /\ UNCHANGED <<master, wb, pc, inp, nruns, prev, last>>
    /\ UNCHANGED <<history_vars, pipeline_vars, probe, jobs, outdir, cleanup,
                   sched>>

NextDownload ==
    \/ StartDownload
    \/ FirstDownload
    \/ SeedBlob
    \/ SecondDownload

SpecDownload == InitDownload /\ [][NextDownload]_vars

(***************************************************************************)
(* C29: when the download step has returned, the local canonical path of   *)
(* the usage workbook either does not exist or holds a workbook that       *)
(* loads; it never holds an empty or truncated file.                       *)
(***************************************************************************)
C29_NoFileOrLoadable ==
    dl.pc = "returned" => (~disk.exists \/ IsLoadable(disk))

\* what does hold: a step that logged a successful download left a
\* workbook that loads
DownloadedIsLoadable ==
    (dl.pc = "returned" /\ dl.outcome \in {"downloaded", "seeded"})
        => IsLoadable(disk)

(***************************************************************************)
(* The scheduler of app.py (lines 34-66): a BackgroundScheduler with its   *)
(* defaults, a pool of ten threads and at most one running instance of     *)
(* each job.  The clock counts the instants at which a trigger is due: in  *)
(* the weekday configuration the one job at 17:05 JST of each weekday, in  *)
(* SCHEDULER_DEBUG_MODE the six jobs in turn, ten seconds apart.  A run    *)
(* lasts as long as its queries, uploads and mails take.                   *)
(***************************************************************************)
\* line 46: the seconds of the six debug triggers, one job for each
DebugSeconds == <<0, 10, 20, 30, 40, 50>>

\* the job whose trigger is due at the instant t
DueJob(mode, t) == IF mode = "debug" THEN (t % Len(DebugSeconds)) + 1 ELSE 1

\* the scheduler submits a due job unless an instance of that same job is
\* still running; instances of other jobs do not count
CanSubmit(running, j) == j \notin running

InitSchedule ==
    /\ disk \in InitialFiles
    /\ UsageIdle
    /\ htemplate = FileOf(HistoryTemplateBare)
    /\ HistoryIdle
    /\ PipelineIdle
    /\ probe = NoProbe
    /\ jobs = NoJobs
    /\ outdir = EmptyOutdir
    /\ cleanup = NoCleanup
    /\ dl = NoDownload
    /\ \E mode \in {"cron", "debug"} : sched = [NoSched EXCEPT !.mode = mode]

\* a trigger is due and run_app_activity_monitor starts on a pool thread
FireJob ==
    /\ sched.clock < MaxFirings
    /\ LET j == DueJob(sched.mode, sched.clock)
       IN /\ CanSubmit(sched.running, j)
          /\ sched' = [sched EXCEPT !.clock = @ + 1,
                                    !.running = @ \cup {j},
                                    !.runs = @ + 1,
                                    !.started = j,
                                    !.at_start = sched.running]
    /\ UNCHANGED <<usage_vars, history_vars, pipeline_vars, probe, jobs,
                   outdir, cleanup, dl>>

\* a trigger is due while the same job still runs: the firing is skipped
SkipJob ==
    /\ sched.clock < MaxFirings
    /\ LET j == DueJob(sched.mode, sched.clock)
       IN /\ ~CanSubmit(sched.running, j)
          /\ sched' = [sched EXCEPT !.clock = @ + 1, !.skipped = @ + 1]
    /\ UNCHANGED <<usage_vars, history_vars, pipeline_vars, probe, jobs,
                   outdir, cleanup, dl>>

\* lines 34-40: a run returns or its exception is printed
FinishRun ==
    /\ \E j \in sched.running :
          sched' = [sched EXCEPT !.running = @ \ {j}]
    /\ UNCHANGED <<usage_vars, history_vars, pipeline_vars, probe, jobs,
                   outdir, cleanup, dl>>

NextSchedule ==
    \/ FireJob
    \/ SkipJob
    \/ FinishRun

SpecSchedule == InitSchedule /\ [][NextSchedule]_vars

(***************************************************************************)
(* C30: under the scheduler of the entry point, in the weekday             *)
(* configuration and in SCHEDULER_DEBUG_MODE, no run starts while an       *)
(* earlier run is still in progress.                                       *)
(***************************************************************************)
C30_NoRunStartsDuringAnother == sched.at_start = {}

\* what does hold: the weekday configuration never starts a run during
\* another, and no job ever runs twice at once
WeekdayRunsDoNotOverlap == sched.mode = "cron" => sched.at_start = {}

NoJobOverlapsItself == sched.started \notin sched.at_start

=============================================================================
